---- MODULE Spec2Model ----
(***************************************************************************)
(* Job orchestration of the gmaps scraper: the scrape worker pool          *)
(* (workers/scrapeWorker.ts), the Bull queue (services/queue.ts), the      *)
(* pause and resume API handlers (app/api/jobs/[id]/pause|resume) and the  *)
(* rows of the datastore they read and write.                              *)
(*                                                                         *)
(* Every action is one atomic interaction with the datastore or the queue; *)
(* the awaits between them are the points where other workers and handlers *)
(* interleave.                                                             *)
(***************************************************************************)
EXTENDS Integers, Sequences, FiniteSets, TLC

(* ---- bounds of the model ---- *)
NumJobs == 1
NumKeywords == 2
NumLocations == 2
NumPlaces == 2
MaxFound == 2
SmallCap == 1
MaxResumes == 1
MaxInflight == 1
MaxErrors == 2
MaxCrashes == 1
MaxFaults == 2
MaxDelay == 3
MaxLinks == 51
NumUnits == 2
NumSites == 2
NumSubscribers == 2
MaxEmits == 2
MaxFrames == 1
MaxPosts == 3
MaxRows == 2
NumRequests == 2
MaxPatches == 3
MaxPauses == 1
MaxDetailLinks == 2
MaxRestarts == 1

(* ---- program constants ---- *)
NumWorkers == 3
MaxAttempts == 3
MilestoneEvery == 500
SessionBudget == 300

Jobs == 1..NumJobs
Workers == 1..NumWorkers
PlaceIds == 1..NumPlaces

Statuses == {"PENDING", "RUNNING", "PAUSED", "COMPLETED", "FAILED"}

LogEvents == {"JOB_CREATED", "JOB_STARTED", "JOB_PAUSED", "JOB_RESUMED",
              "CAPTCHA_DETECTED", "JOB_COMPLETED", "JOB_FAILED"}
NoteKinds == {"started", "paused", "captcha", "completed", "failed", "milestone"}

\* startedAt of a job that was never dispatched
NotStarted == 0

NoReason == "null"
CaptchaReason == "CAPTCHA detected"
ManualReason == "Manually paused by user"

VARIABLES
  job,       \* job rows of the datastore, by job id
  cfg,       \* the immutable part of each job row (locations, grid)
  places,    \* scrapedPlace rows
  failures,  \* failedScrape rows, per job, in insertion order
  logs,      \* systemLog rows, per job: the number of rows of each event
  notes,     \* notifications handed to the Discord sink, per job and kind
  queue,     \* waiting units of the scrape queue (FIFO)
  worker,    \* the executions of the process(3, ...) handler, one per slot
  pausing,   \* pause requests that passed the status check, per job
  resuming,  \* resume requests that passed the status check, per job
  resp,      \* status code of the last response of the pause/resume handlers
  finished,  \* (term, location) pairs whose processing has finished, per job
  webhook,   \* what a delivery to the Discord webhook meets (DISCORD_WEBHOOK_URL, fetch)
  delay,     \* a call of getRandomDelay: its arguments, its draws, its result
  scraper,   \* a call of GoogleMapsScraper.searchPlaces: the loop over the place links
  bull,      \* units of a Bull queue: state, attemptsMade, stalled count, executions
  email,     \* executions of the emailScrapeQueue handler and the rows they patch
  csv,       \* a call of generateCSV: the job's field selection, the columns written
  sse,       \* the progress channel: subscribers of /api/sse, events emitted and received
  post,      \* a request to POST /api/jobs and what it created
  session,   \* a GoogleMapsScraper instance inside an execution: browsers, counters
  deleted,   \* DELETE /api/jobs/[id]: the rows of one job, its unit, its execution
  enrich,    \* the save loop of an execution and the enrichment units it enqueues
  patch,     \* resume requests of one job, one await at a time, and its queue units
  visit      \* the page of an execution's browser across its navigations

vars == <<job, cfg, places, failures, logs, notes, queue, worker,
          pausing, resuming, resp, finished, webhook, delay, scraper, bull, email,
          csv, sse, post, session, deleted, enrich, patch, visit>>

\* the state of the scrape worker and of the pause/resume handlers
core == <<job, cfg, places, failures, logs, notes, queue, worker, pausing, resuming,
          resp, finished, webhook>>

\* the state of the utilities, the scraper's link loop and the queues
work == <<delay, scraper, bull, email>>

\* the state of the other API routes and of a scraper instance
api == <<csv, sse, post, session, deleted, enrich, patch, visit>>

\* what the scrape worker and the pause/resume handlers never write
side == <<webhook, work, api>>

\* what getRandomDelay and searchPlaces never write
main == <<core, api>>

db == <<job, places, failures, logs, notes, queue>>

(* ---- helpers ---- *)
RECURSIVE SeqsUpTo(_, _)
SeqsUpTo(S, n) ==
  IF n = 0 THEN {<<>>}
  ELSE LET shorter == SeqsUpTo(S, n - 1)
       IN shorter \cup {Append(s, x) : s \in {t \in shorter : Len(t) = n - 1}, x \in S}

\* what searchPlaces can return: a list of scraped places (their placeId)
SearchResults == SeqsUpTo(PlaceIds, MaxFound)

\* places.slice(0, maxResultsPerKeyword)
Slice(s, n) == SubSeq(s, 1, IF Len(s) < n THEN Len(s) ELSE n)

\* searchLocations.length: subLocations if the job has a grid, else locations
NumSearchLocations(j) == cfg[j].nLoc

\* the jobs of the model: NumKeywords terms without locations and a cap that
\* truncates; one term over a grid of NumLocations sub-locations; one term
\* without locations whose cap lets every found place through
Configs == {[nKw |-> NumKeywords, nLoc |-> 0, grid |-> FALSE, cap |-> SmallCap],
            [nKw |-> 1, nLoc |-> NumLocations, grid |-> TRUE, cap |-> SmallCap],
            [nKw |-> 1, nLoc |-> 0, grid |-> FALSE, cap |-> MaxFound]}

\* error.message of what reaches the outer catch of the handler
NoError == "none"
LaunchError == "Failed to launch the browser process"
WebhookError == "fetch failed"

\* what one delivery to the webhook can meet
Deliveries == {"delivered", "noUrl", "notOk", "networkError"}

IdleWorker == [pc |-> "idle", job |-> 0, att |-> 0, i |-> 0, j |-> 0,
               found |-> <<>>, p |-> 0, ts |-> 0, tf |-> 0, started |-> NotStarted,
               ret |-> 0, dup |-> 0, err |-> NoError]

NoResp == 0

NewJob == [status |-> "PENDING", pauseReason |-> NoReason,
           currentKeywordIndex |-> 0, currentSubLocationIndex |-> 0,
           scrapedCount |-> 0, failedCount |-> 0, startedAt |-> NotStarted,
           completedAt |-> FALSE, errorMessage |-> NoError]

\* no call of getRandomDelay, no call of searchPlaces
NoCall == [pc |-> "none"]
NoSearch == [pc |-> "none"]
NoUnits == [settings |-> "none"]
NoSites == [pc |-> "none"]

NoExport == [pc |-> "none"]
NoStream == [pc |-> "none"]
NoPost == [pc |-> "none"]
NoSession == [pc |-> "none"]
NoDelete == [pc |-> "none"]
NoEnrich == [pc |-> "none"]
NoPatch == [rev |-> "none"]
NoVisit == [pc |-> "none"]

WorkAtRest == delay = NoCall /\ scraper = NoSearch /\ bull = NoUnits /\ email = NoSites

ApiAtRest ==
  /\ csv = NoExport /\ sse = NoStream /\ post = NoPost /\ session = NoSession
  /\ deleted = NoDelete /\ enrich = NoEnrich /\ patch = NoPatch /\ visit = NoVisit

SideAtRest == WorkAtRest /\ ApiAtRest

\* a job outside the model that stored a place before the model's jobs ran
OtherJob == NumJobs + 1

\* the state after POST /api/jobs has created and enqueued every job
Init ==
  /\ job = [j \in Jobs |-> NewJob]
  /\ cfg \in [Jobs -> Configs]
  /\ places = {[placeId |-> 1, jobId |-> OtherJob]}
  /\ failures = [j \in Jobs |-> <<>>]
  /\ logs = [j \in Jobs |-> [e \in LogEvents |-> IF e = "JOB_CREATED" THEN 1 ELSE 0]]
  /\ notes = [j \in Jobs |-> [k \in NoteKinds |-> 0]]
  /\ queue = [k \in 1..NumJobs |-> [job |-> k, att |-> 0, failedReason |-> NoError]]
  /\ worker = [w \in Workers |-> IdleWorker]
  /\ pausing = [j \in Jobs |-> 0]
  /\ resuming = [j \in Jobs |-> 0]
  /\ resp = NoResp
  /\ finished = [j \in Jobs |-> {}]
  /\ webhook = "delivered"
  /\ SideAtRest

(* ---- the scrape worker: scrapeQueue.process(3, handler) ---- *)

\* Bull hands the head of the queue to a free slot; slots are anonymous, so
\* the lowest free one takes it
FreeSlot(w) == worker[w].pc = "idle" /\ \A v \in 1..(w - 1) : worker[v].pc # "idle"

IsActive(w) == worker[w].pc # "idle"

HasLocations(j) == NumSearchLocations(j) > 0

\* loop control after the pair (i, j) of execution wr has ended
NextPair(wr) ==
  IF HasLocations(wr.job) /\ wr.j + 1 < NumSearchLocations(wr.job)
  THEN [wr EXCEPT !.pc = "search", !.j = wr.j + 1, !.found = <<>>, !.p = 0]
  ELSE [wr EXCEPT !.pc = "kwTop", !.i = wr.i + 1, !.j = 0, !.found = <<>>, !.p = 0]

\* loop control of the save loop: next place, or the pair has ended
AfterPlace(wr) == IF wr.p < Len(wr.found) THEN [wr EXCEPT !.pc = "save"] ELSE NextPair(wr)

PairEnds(wr) == wr.p >= Len(wr.found)

MarkFinished(wr) == [finished EXCEPT ![wr.job] = @ \cup {<<wr.i, wr.j>>}]

\* Dispatch of an execution that starts at term 0 with counters 0
Dispatch_FromZero(w) ==
  /\ FreeSlot(w)
  /\ queue # <<>>
  /\ LET u == Head(queue)
         dbJob == job[u.job]
     IN /\ queue' = Tail(queue)
        /\ IF dbJob.status = "PAUSED"
           THEN UNCHANGED worker
           ELSE worker' = [worker EXCEPT ![w] =
                  [IdleWorker EXCEPT !.pc = "setRunning", !.job = u.job, !.att = u.att,
                                     !.started = dbJob.startedAt]]
  /\ UNCHANGED <<side, job, cfg, places, failures, logs, notes, pausing, resuming, resp,
                 finished>>

\* dispatch of a unit and the first read of the job row
Dispatch(w) ==
  /\ FreeSlot(w)
  /\ queue # <<>>
  /\ LET u == Head(queue)
         dbJob == job[u.job]
     IN /\ queue' = Tail(queue)
        /\ IF dbJob.status = "PAUSED"
           THEN UNCHANGED worker
           ELSE worker' = [worker EXCEPT ![w] =
                  [IdleWorker EXCEPT !.pc = "setRunning", !.job = u.job, !.att = u.att,
                                     !.i = dbJob.currentKeywordIndex,
                                     !.ts = dbJob.scrapedCount,
                                     !.tf = dbJob.failedCount,
                                     !.started = dbJob.startedAt]]
  /\ UNCHANGED <<side, job, cfg, places, failures, logs, notes, pausing, resuming, resp,
                 finished>>

\* faults injected into job j so far: per-pair errors and failed launches
Crashes(j) == logs[j]["JOB_FAILED"]
               + Cardinality({v \in Workers : worker[v].pc = "catch" /\ worker[v].job = j})
Faults(j) == Len(failures[j]) + Crashes(j)

\* sendWebhook with neither the URL guard nor the try/catch: a delivery that
\* fails throws into the caller
SendWebhook_Unguarded(delivery) ==
  IF delivery = "delivered" THEN "returned" ELSE "thrown"

\* sendWebhook: what the caller of a notify function gets back
SendWebhook(delivery) ==
  CASE delivery = "noUrl" -> "returned"
    [] delivery = "notOk" -> "returned"
    [] delivery = "networkError" -> "returned"
    [] OTHER -> "returned"

Thrown == SendWebhook(webhook) = "thrown"

\* new Date() at the RUNNING update of job j: the ordinal of this start
Now(j) == logs[j]["JOB_STARTED"] + 1

\* StartedAt that stamps every dispatch
StartedAt_EveryDispatch(read, now) == now

\* startedAt: dbJob.startedAt || new Date()
StartedAt(read, now) == IF read # NotStarted THEN read ELSE now

\* the duration handed to notifyJobCompleted: completedAt minus
\* (dbJob.startedAt || new Date()), dbJob being the row read at the entry of
\* the handler
Duration(read, completedAt) == completedAt - StartedAt(read, completedAt)

\* status RUNNING, JOB_STARTED log, notification, scraper.initialize()
SetRunning(w) ==
  /\ worker[w].pc = "setRunning"
  /\ LET j == worker[w].job
     IN /\ job' = [job EXCEPT ![j].status = "RUNNING",
                               ![j].startedAt = StartedAt(worker[w].started, Now(j))]
        /\ logs' = [logs EXCEPT ![j]["JOB_STARTED"] = @ + 1]
        /\ notes' = [notes EXCEPT ![j]["started"] = @ + 1]
  /\ IF Thrown
     THEN worker' = [worker EXCEPT ![w].pc = "catch", ![w].err = WebhookError]
     ELSE \E ok \in BOOLEAN :
            /\ ok \/ (Crashes(worker[w].job) < MaxCrashes /\ Faults(worker[w].job) < MaxFaults)
            /\ worker' = [worker EXCEPT ![w].pc = IF ok THEN "kwTop" ELSE "catch",
                                          ![w].err = IF ok THEN NoError ELSE LaunchError]
  /\ UNCHANGED <<side, cfg, places, failures, queue, pausing, resuming, resp, finished>>

\* top of the keyword loop: the pause check
PauseCheck(w) ==
  /\ worker[w].pc = "kwTop"
  /\ worker[w].i < cfg[worker[w].job].nKw
  /\ worker' = [worker EXCEPT ![w] =
       IF job[worker[w].job].status = "PAUSED" THEN IdleWorker
       ELSE [@ EXCEPT !.pc = "kwUpdate"]]
  /\ UNCHANGED <<side, job, cfg, places, failures, logs, notes, queue, pausing, resuming, resp,
                 finished>>

\* currentKeyword / currentKeywordIndex update
KwUpdate(w) ==
  /\ worker[w].pc = "kwUpdate"
  /\ job' = [job EXCEPT ![worker[w].job].currentKeywordIndex = worker[w].i]
  /\ worker' = [worker EXCEPT ![w].pc = "search", ![w].j = 0]
  /\ UNCHANGED <<side, cfg, places, failures, logs, notes, queue, pausing, resuming, resp,
                 finished>>

\* searchPlaces returns a list: sub-location cursor, slice
SearchReturns(w) ==
  /\ worker[w].pc = "search"
  /\ \E r \in SearchResults :
       LET j == worker[w].job
           wr == [worker[w] EXCEPT !.found = Slice(r, cfg[j].cap), !.p = 0,
                                   !.ret = @ + Len(Slice(r, cfg[j].cap))]
       IN /\ job' = IF cfg[j].grid
                    THEN [job EXCEPT ![j].currentSubLocationIndex = wr.j + 1]
                    ELSE job
          /\ worker' = [worker EXCEPT ![w] = AfterPlace(wr)]
          /\ finished' = IF PairEnds(wr) THEN MarkFinished(wr) ELSE finished
  /\ UNCHANGED <<side, cfg, places, failures, logs, notes, queue, pausing, resuming, resp>>

\* searchPlaces throws CAPTCHA_DETECTED: pause, notify, log, close, return
SearchCaptcha(w) ==
  /\ worker[w].pc = "search"
  /\ LET j == worker[w].job
     IN /\ job' = [job EXCEPT ![j].status = "PAUSED", ![j].pauseReason = CaptchaReason]
        /\ notes' = [notes EXCEPT ![j]["captcha"] = @ + 1]
        /\ logs' = IF Thrown THEN logs ELSE [logs EXCEPT ![j]["CAPTCHA_DETECTED"] = @ + 1]
  /\ worker' = [worker EXCEPT ![w] =
       IF Thrown THEN [@ EXCEPT !.pc = "catch", !.err = WebhookError] ELSE IdleWorker]
  /\ UNCHANGED <<side, cfg, places, failures, queue, pausing, resuming, resp, finished>>

\* searchPlaces throws another error: the failure record
SearchFails(w) ==
  /\ worker[w].pc = "search"
  /\ LET j == worker[w].job
     IN /\ Len(failures[j]) < MaxErrors
        /\ Faults(j) < MaxFaults
        /\ failures' = [failures EXCEPT ![j] = Append(@, <<worker[w].i, worker[w].j>>)]
  /\ worker' = [worker EXCEPT ![w].pc = "failUpdate", ![w].tf = @ + 1]
  /\ UNCHANGED <<side, job, cfg, places, logs, notes, queue, pausing, resuming, resp,
                 finished>>

\* failedCount update after the failure record
FailUpdate(w) ==
  /\ worker[w].pc = "failUpdate"
  /\ job' = [job EXCEPT ![worker[w].job].failedCount = worker[w].tf]
  /\ worker' = [worker EXCEPT ![w] = NextPair(@)]
  /\ finished' = MarkFinished(worker[w])
  /\ UNCHANGED <<side, cfg, places, failures, logs, notes, queue, pausing, resuming, resp>>

\* the unique index on ScrapedPlace.placeId: a row with this placeId exists,
\* whichever job stored it, and a create of it fails with P2002
Stored(pid) == \E row \in places : row.placeId = pid

\* SaveOutcome with the P2002 branch lost: a rejected insert counts as stored
SaveOutcome_DuplicateCounted(wr, duplicate) ==
  [wr EXCEPT !.pc = "progress", !.ts = wr.ts + 1]

\* the outcome of scrapedPlace.create for the place at hand: a P2002 unique
\* violation is swallowed (continue), a stored row counts
SaveOutcome(wr, duplicate) ==
  IF duplicate
  THEN AfterPlace([wr EXCEPT !.p = wr.p + 1, !.dup = wr.dup + 1])
  ELSE [wr EXCEPT !.pc = "progress", !.ts = wr.ts + 1]

\* a create that replaces the row of a stored placeId
ScrapedPlaceCreate_Upsert(pid, jobId) ==
  {row \in places : row.placeId # pid} \cup {[placeId |-> pid, jobId |-> jobId]}

\* prisma.scrapedPlace.create({ data: { jobId, placeId, ... } }): the rows
\* after it; a stored placeId is rejected and leaves the rows as they are
ScrapedPlaceCreate(pid, jobId) ==
  IF Stored(pid) THEN places ELSE places \cup {[placeId |-> pid, jobId |-> jobId]}

\* scrapedPlace.create
Save(w) ==
  /\ worker[w].pc = "save"
  /\ LET wr == worker[w]
         pid == wr.found[wr.p + 1]
         duplicate == Stored(pid)
         nxt == SaveOutcome(wr, duplicate)
     IN /\ places' = ScrapedPlaceCreate(pid, wr.job)
        /\ worker' = [worker EXCEPT ![w] = nxt]
        /\ finished' = IF nxt.pc \in {"search", "kwTop"} THEN MarkFinished(wr) ELSE finished
  /\ UNCHANGED <<side, job, cfg, failures, logs, notes, queue, pausing, resuming, resp>>

\* Progress without the job.update that persists totalScraped
Progress_CountNotPersisted(w) ==
  /\ worker[w].pc = "progress"
  /\ LET wr == [worker[w] EXCEPT !.p = @ + 1]
     IN /\ worker' = [worker EXCEPT ![w] = AfterPlace(wr)]
        /\ finished' = IF PairEnds(wr) THEN MarkFinished(wr) ELSE finished
  /\ UNCHANGED <<side, job, cfg, places, failures, logs, notes, queue, pausing, resuming, resp>>

\* scrapedCount update after a stored row, milestone notification every 500
Progress(w) ==
  /\ worker[w].pc = "progress"
  /\ LET wr == [worker[w] EXCEPT !.p = @ + 1]
     IN /\ job' = [job EXCEPT ![wr.job].scrapedCount = wr.ts]
        /\ notes' = IF wr.ts % MilestoneEvery = 0
                    THEN [notes EXCEPT ![wr.job]["milestone"] = @ + 1]
                    ELSE notes
        /\ worker' = [worker EXCEPT ![w] = AfterPlace(wr)]
        /\ finished' = IF PairEnds(wr) THEN MarkFinished(wr) ELSE finished
  /\ UNCHANGED <<side, cfg, places, failures, logs, queue, pausing, resuming, resp>>

\* all keywords done: COMPLETED, log, notification
Complete(w) ==
  /\ worker[w].pc = "kwTop"
  /\ worker[w].i >= cfg[worker[w].job].nKw
  /\ LET j == worker[w].job
     IN /\ job' = [job EXCEPT ![j].status = "COMPLETED", ![j].completedAt = TRUE]
        /\ logs' = [logs EXCEPT ![j]["JOB_COMPLETED"] = @ + 1]
        /\ notes' = [notes EXCEPT ![j]["completed"] = @ + 1]
  /\ worker' = [worker EXCEPT ![w] =
       IF Thrown THEN [@ EXCEPT !.pc = "catch", !.err = WebhookError] ELSE IdleWorker]
  /\ UNCHANGED <<side, cfg, places, failures, queue, pausing, resuming, resp, finished>>

\* addScrapeJob / resumeScrapeJob options: attempts: 3
\* the execution failed with wr.err
Retry(wr) ==
  IF wr.att + 1 < MaxAttempts
  THEN <<[job |-> wr.job, att |-> wr.att + 1, failedReason |-> wr.err]>>
  ELSE <<>>

\* the outer catch with the throw moved in front of its writes
Catch_ThrowFirst(w) ==
  /\ worker[w].pc = "catch"
  /\ worker' = [worker EXCEPT ![w].pc = "rethrow"]
  /\ UNCHANGED <<side, job, cfg, places, failures, logs, notes, queue, pausing, resuming,
                 resp, finished>>

\* the outer catch: FAILED and the error message, JOB_FAILED log, notification
Catch(w) ==
  /\ worker[w].pc = "catch"
  /\ LET j == worker[w].job
     IN /\ job' = [job EXCEPT ![j].status = "FAILED", ![j].errorMessage = worker[w].err]
        /\ logs' = [logs EXCEPT ![j]["JOB_FAILED"] = @ + 1]
        /\ notes' = [notes EXCEPT ![j]["failed"] = @ + 1]
  /\ worker' = [worker EXCEPT ![w].pc = "rethrow",
                                ![w].err = IF Thrown THEN WebhookError ELSE @]
  /\ UNCHANGED <<side, cfg, places, failures, queue, pausing, resuming, resp, finished>>

\* throw error, finally scraper.close(): Bull fails the unit and retries it
Rethrow(w) ==
  /\ worker[w].pc = "rethrow"
  /\ queue' = queue \o Retry(worker[w])
  /\ worker' = [worker EXCEPT ![w] = IdleWorker]
  /\ UNCHANGED <<side, job, cfg, places, failures, logs, notes, pausing, resuming, resp,
                 finished>>

(* ---- PATCH /api/jobs/[id]/pause and /resume ---- *)

NoJob == 0

\* Rejection without the status check: only a missing job is refused
Rejection_StatusUnchecked(id, required) ==
  IF id \notin Jobs THEN 404 ELSE NoResp

\* what the handler answers when it does not go on to write
Rejection(id, required) ==
  IF id \notin Jobs THEN 404
  ELSE IF job[id].status # required THEN 400
  ELSE NoResp

\* pause: findUnique and the status check
PauseRequest(id) ==
  LET rej == Rejection(id, "RUNNING")
  IN /\ IF rej # NoResp
        THEN resp' = rej /\ UNCHANGED pausing
        ELSE /\ pausing[id] < MaxInflight
             /\ pausing' = [pausing EXCEPT ![id] = @ + 1]
             /\ UNCHANGED resp
     /\ UNCHANGED <<side, job, cfg, places, failures, logs, notes, queue, worker, resuming,
                    finished>>

\* pause: status PAUSED, JOB_PAUSED log, notification
PauseWrite(id) ==
  /\ pausing[id] > 0
  /\ pausing' = [pausing EXCEPT ![id] = @ - 1]
  /\ job' = [job EXCEPT ![id].status = "PAUSED", ![id].pauseReason = ManualReason]
  /\ logs' = [logs EXCEPT ![id]["JOB_PAUSED"] = @ + 1]
  /\ notes' = [notes EXCEPT ![id]["paused"] = @ + 1]
  /\ resp' = IF Thrown THEN 500 ELSE 200
  /\ UNCHANGED <<side, cfg, places, failures, queue, worker, resuming, finished>>

\* resume: findUnique and the status check
ResumeRequest(id) ==
  LET rej == Rejection(id, "PAUSED")
  IN /\ IF rej # NoResp
        THEN resp' = rej /\ UNCHANGED resuming
        ELSE /\ resuming[id] < MaxInflight
             /\ logs[id]["JOB_RESUMED"] + resuming[id] < MaxResumes
             /\ resuming' = [resuming EXCEPT ![id] = @ + 1]
             /\ UNCHANGED resp
     /\ UNCHANGED <<side, job, cfg, places, failures, logs, notes, queue, worker, pausing,
                    finished>>

\* resume: status PENDING, JOB_RESUMED log, resumeScrapeJob
ResumeWrite(id) ==
  /\ resuming[id] > 0
  /\ resuming' = [resuming EXCEPT ![id] = @ - 1]
  /\ job' = [job EXCEPT ![id].status = "PENDING", ![id].pauseReason = NoReason]
  /\ logs' = [logs EXCEPT ![id]["JOB_RESUMED"] = @ + 1]
  /\ queue' = Append(queue, [job |-> id, att |-> 0, failedReason |-> NoError])
  /\ resp' = 200
  /\ UNCHANGED <<side, cfg, places, failures, notes, worker, pausing, finished>>

Next ==
  \/ \E w \in Workers : Dispatch(w)
  \/ \E w \in Workers : SetRunning(w)
  \/ \E w \in Workers : PauseCheck(w)
  \/ \E w \in Workers : KwUpdate(w)
  \/ \E w \in Workers : SearchReturns(w)
  \/ \E w \in Workers : SearchCaptcha(w)
  \/ \E w \in Workers : SearchFails(w)
  \/ \E w \in Workers : FailUpdate(w)
  \/ \E w \in Workers : Save(w)
  \/ \E w \in Workers : Progress(w)
  \/ \E w \in Workers : Complete(w)
  \/ \E w \in Workers : Catch(w)
  \/ \E w \in Workers : Rethrow(w)
  \/ \E id \in Jobs \cup {NoJob} : PauseRequest(id)
  \/ \E id \in Jobs : PauseWrite(id)
  \/ \E id \in Jobs \cup {NoJob} : ResumeRequest(id)
  \/ \E id \in Jobs : ResumeWrite(id)

Spec == Init /\ [][Next]_vars

\* the one-term job without locations, under every outcome of a delivery
InitWebhook ==
  /\ job = [j \in Jobs |-> NewJob]
  /\ cfg = [j \in Jobs |-> [nKw |-> 1, nLoc |-> 0, grid |-> FALSE, cap |-> MaxFound]]
  /\ places = {[placeId |-> 1, jobId |-> OtherJob]}
  /\ failures = [j \in Jobs |-> <<>>]
  /\ logs = [j \in Jobs |-> [e \in LogEvents |-> IF e = "JOB_CREATED" THEN 1 ELSE 0]]
  /\ notes = [j \in Jobs |-> [k \in NoteKinds |-> 0]]
  /\ queue = [k \in 1..NumJobs |-> [job |-> k, att |-> 0, failedReason |-> NoError]]
  /\ worker = [w \in Workers |-> IdleWorker]
  /\ pausing = [j \in Jobs |-> 0]
  /\ resuming = [j \in Jobs |-> 0]
  /\ resp = NoResp
  /\ finished = [j \in Jobs |-> {}]
  /\ webhook \in Deliveries
  /\ SideAtRest

SpecWebhook == InitWebhook /\ [][Next]_vars

\* the one-term job over a grid of sub-locations, on an empty place table
InitEmptyStore ==
  /\ job = [j \in Jobs |-> NewJob]
  /\ cfg = [j \in Jobs |-> [nKw |-> 1, nLoc |-> NumLocations, grid |-> TRUE, cap |-> SmallCap]]
  /\ places = {}
  /\ failures = [j \in Jobs |-> <<>>]
  /\ logs = [j \in Jobs |-> [e \in LogEvents |-> IF e = "JOB_CREATED" THEN 1 ELSE 0]]
  /\ notes = [j \in Jobs |-> [k \in NoteKinds |-> 0]]
  /\ queue = [k \in 1..NumJobs |-> [job |-> k, att |-> 0, failedReason |-> NoError]]
  /\ worker = [w \in Workers |-> IdleWorker]
  /\ pausing = [j \in Jobs |-> 0]
  /\ resuming = [j \in Jobs |-> 0]
  /\ resp = NoResp
  /\ finished = [j \in Jobs |-> {}]
  /\ webhook = "delivered"
  /\ SideAtRest

SpecEmptyStore == InitEmptyStore /\ [][Next]_vars

\* a job of two terms whose first term has stored one row short of a
\* milestone: the execution is at the top of the second iteration
InitMilestone ==
  /\ job = [j \in Jobs |-> [NewJob EXCEPT !.status = "RUNNING", !.startedAt = 1,
                                           !.scrapedCount = MilestoneEvery - 1]]
  /\ cfg = [j \in Jobs |-> [nKw |-> 2, nLoc |-> 0, grid |-> FALSE, cap |-> MilestoneEvery - 1]]
  /\ places = {}
  /\ failures = [j \in Jobs |-> <<>>]
  /\ logs = [j \in Jobs |-> [e \in LogEvents |->
               IF e \in {"JOB_CREATED", "JOB_STARTED"} THEN 1 ELSE 0]]
  /\ notes = [j \in Jobs |-> [k \in NoteKinds |-> IF k = "started" THEN 1 ELSE 0]]
  /\ queue = <<>>
  /\ worker = [w \in Workers |->
                 IF w <= NumJobs
                 THEN [IdleWorker EXCEPT !.pc = "kwTop", !.job = w, !.i = 1,
                                         !.ts = MilestoneEvery - 1, !.ret = MilestoneEvery - 1]
                 ELSE IdleWorker]
  /\ pausing = [j \in Jobs |-> 0]
  /\ resuming = [j \in Jobs |-> 0]
  /\ resp = NoResp
  /\ finished = [j \in Jobs |-> {<<0, 0>>}]
  /\ webhook = "delivered"
  /\ SideAtRest

SpecMilestone == InitMilestone /\ [][Next]_vars

\* a job of NumKeywords terms over a grid of NumLocations sub-locations whose
\* first execution has gone through every sub-location of the first term and
\* stands at the top of the second
InitCursor ==
  /\ job = [j \in Jobs |-> [NewJob EXCEPT !.status = "RUNNING", !.startedAt = 1,
                                           !.currentSubLocationIndex = NumLocations]]
  /\ cfg = [j \in Jobs |-> [nKw |-> NumKeywords, nLoc |-> NumLocations, grid |-> TRUE,
                            cap |-> SmallCap]]
  /\ places = {[placeId |-> 1, jobId |-> OtherJob]}
  /\ failures = [j \in Jobs |-> <<>>]
  /\ logs = [j \in Jobs |-> [e \in LogEvents |->
               IF e \in {"JOB_CREATED", "JOB_STARTED"} THEN 1 ELSE 0]]
  /\ notes = [j \in Jobs |-> [k \in NoteKinds |-> IF k = "started" THEN 1 ELSE 0]]
  /\ queue = <<>>
  /\ worker = [w \in Workers |->
                 IF w <= NumJobs
                 THEN [IdleWorker EXCEPT !.pc = "kwTop", !.job = w, !.i = 1]
                 ELSE IdleWorker]
  /\ pausing = [j \in Jobs |-> 0]
  /\ resuming = [j \in Jobs |-> 0]
  /\ resp = NoResp
  /\ finished = [j \in Jobs |-> {<<0, l>> : l \in 0..(NumLocations - 1)}]
  /\ webhook = "delivered"
  /\ SideAtRest

SpecCursor == InitCursor /\ [][Next]_vars

(* ---- utils/delays.ts ---- *)

\* JavaScript numbers: a finite value, +Infinity or -Infinity (v is the sign), NaN
Num(v) == [k |-> "num", v |-> v]
Inf(sign) == [k |-> "inf", v |-> sign]
NaN == [k |-> "nan", v |-> 0]

\* draws of Math.random(), which lies in [0, 1) and can be 0
U1Draws == {"0", "exp(-8)", "exp(-2)", "exp(-1/2)"}
U2Draws == {"0", "1/6", "1/4", "1/3", "1/2"}

\* Math.sqrt(-2.0 * Math.log(u1)); Math.log(0) is -Infinity
Radius(u1) ==
  CASE u1 = "0" -> Inf(1)
    [] u1 = "exp(-8)" -> Num(4)
    [] u1 = "exp(-2)" -> Num(2)
    [] OTHER -> Num(1)

\* 2 * Math.cos(2.0 * Math.PI * u2) and its sign; the cosine at the double
\* nearest to pi/2 is positive and below 1e-16: 0 in a finite product, its
\* sign in an infinite one
TwiceCos(u2) ==
  CASE u2 = "0" -> [v |-> 2, sign |-> 1]
    [] u2 = "1/6" -> [v |-> 1, sign |-> 1]
    [] u2 = "1/4" -> [v |-> 0, sign |-> 1]
    [] u2 = "1/3" -> [v |-> -1, sign |-> -1]
    [] OTHER -> [v |-> -2, sign |-> -1]

\* gaussian * stdDev, in twelfths: (radius * cos) * ((max - min) / 6);
\* Infinity * 0 is NaN
Deviation(min, max, u1, u2) ==
  LET radius == Radius(u1)
      cos2 == TwiceCos(u2)
  IN IF radius.k = "inf"
     THEN IF max - min = 0 THEN NaN ELSE Inf(cos2.sign)
     ELSE Num(radius.v * cos2.v * (max - min))

\* a + x for a finite a
Plus(a, x) == IF x.k = "num" THEN Num(a + x.v) ELSE x

\* Math.min(a, x) and Math.max(a, x) for a finite a: NaN if x is NaN
MathMin(a, x) ==
  CASE x.k = "nan" -> NaN
    [] x.k = "inf" -> IF x.v > 0 THEN Num(a) ELSE x
    [] OTHER -> Num(IF a < x.v THEN a ELSE x.v)

MathMax(a, x) ==
  CASE x.k = "nan" -> NaN
    [] x.k = "inf" -> IF x.v < 0 THEN Num(a) ELSE x
    [] OTHER -> Num(IF a > x.v THEN a ELSE x.v)

\* Math.round of a value in twelfths: floor(x + 1/2)
MathRound(x) == IF x.k = "num" THEN Num((x.v + 6) \div 12) ELSE x

\* getRandomDelay(min, max) with the draws u1 and u2
getRandomDelay(min, max, u1, u2) ==
  LET mean == 6 * (min + max)
      raw == Plus(mean, Deviation(min, max, u1, u2))
      clamped == MathMax(12 * min, MathMin(12 * max, raw))
  IN MathRound(clamped)

\* the scrape worker and the handlers at rest: jobs created, nothing queued
MainAtRest ==
  /\ job = [j \in Jobs |-> NewJob]
  /\ cfg = [j \in Jobs |-> [nKw |-> 1, nLoc |-> 0, grid |-> FALSE, cap |-> MaxFound]]
  /\ places = {}
  /\ failures = [j \in Jobs |-> <<>>]
  /\ logs = [j \in Jobs |-> [e \in LogEvents |-> IF e = "JOB_CREATED" THEN 1 ELSE 0]]
  /\ notes = [j \in Jobs |-> [k \in NoteKinds |-> 0]]
  /\ queue = <<>>
  /\ worker = [w \in Workers |-> IdleWorker]
  /\ pausing = [j \in Jobs |-> 0]
  /\ resuming = [j \in Jobs |-> 0]
  /\ resp = NoResp
  /\ finished = [j \in Jobs |-> {}]
  /\ webhook = "delivered"

\* a call getRandomDelay(min, max) is about to be made
InitDelay ==
  /\ MainAtRest
  /\ ApiAtRest
  /\ scraper = NoSearch
  /\ bull = NoUnits
  /\ email = NoSites
  /\ delay \in {[pc |-> "call", min |-> a, max |-> b] : a \in 0..MaxDelay, b \in 0..MaxDelay}
  /\ delay.min <= delay.max

GetRandomDelay ==
  /\ delay.pc = "call"
  /\ \E u1 \in U1Draws, u2 \in U2Draws :
       delay' = [pc |-> "returned", min |-> delay.min, max |-> delay.max, u1 |-> u1, u2 |-> u2,
                 result |-> getRandomDelay(delay.min, delay.max, u1, u2)]
  /\ UNCHANGED <<main, scraper, bull, email>>

NextDelay == GetRandomDelay

SpecDelay == InitDelay /\ [][NextDelay]_vars

(* ---- services/scraper.ts: searchPlaces, the loop over the place links ---- *)

\* humanDelay(minMs = 2000, maxMs = 4000), cooldownDelay(durationMs = 60000),
\* scrapedData.length % 50
DefaultMinMs == 2000
DefaultMaxMs == 4000
DefaultCooldownMs == 60000
CooldownEvery == 50

\* the pacing a job is created with: the defaults of POST /api/jobs, and a
\* slower pacing chosen in the form's advanced settings
JobPacings ==
  {[minDelay |-> 2000, maxDelay |-> 4000, cooldownAfter |-> 50, cooldownDuration |-> 60000],
   [minDelay |-> 5000, maxDelay |-> 8000, cooldownAfter |-> 2, cooldownDuration |-> 30000]}

\* await humanDelay(): the milliseconds slept
humanDelay(u1, u2) == getRandomDelay(DefaultMinMs, DefaultMaxMs, u1, u2).v

\* the worker of job 1 has called searchPlaces and the links are extracted
InitScraper ==
  /\ job = [j \in Jobs |-> [NewJob EXCEPT !.status = "RUNNING", !.startedAt = 1]]
  /\ cfg = [j \in Jobs |-> [nKw |-> 1, nLoc |-> 0, grid |-> FALSE, cap |-> MaxFound]]
  /\ places = {}
  /\ failures = [j \in Jobs |-> <<>>]
  /\ logs = [j \in Jobs |-> [e \in LogEvents |->
               IF e \in {"JOB_CREATED", "JOB_STARTED"} THEN 1 ELSE 0]]
  /\ notes = [j \in Jobs |-> [k \in NoteKinds |-> IF k = "started" THEN 1 ELSE 0]]
  /\ queue = <<>>
  /\ worker = [w \in Workers |->
                 IF w = 1 THEN [IdleWorker EXCEPT !.pc = "search", !.job = 1] ELSE IdleWorker]
  /\ pausing = [j \in Jobs |-> 0]
  /\ resuming = [j \in Jobs |-> 0]
  /\ resp = NoResp
  /\ finished = [j \in Jobs |-> {}]
  /\ webhook = "delivered"
  /\ ApiAtRest
  /\ delay = NoCall
  /\ bull = NoUnits
  /\ email = NoSites
  /\ scraper \in {[pc |-> "loop", jobData |-> d, links |-> MaxLinks, at |-> 0, len |-> 0,
                   slept |-> 0, rested |-> 0, restMs |-> 0] : d \in JobPacings}

\* scrapedData.push(placeData) and the cooldown every 50 items
Pushed(sc) ==
  LET len == sc.len + 1
  IN IF len % CooldownEvery = 0
     THEN [sc EXCEPT !.len = len, !.rested = @ + 1, !.restMs = DefaultCooldownMs]
     ELSE [sc EXCEPT !.len = len]

\* one link: delay, no CAPTCHA, scrapePlaceDetails returns the place
LinkScraped ==
  /\ scraper.pc = "loop"
  /\ scraper.at < scraper.links
  /\ \E u1 \in U1Draws, u2 \in U2Draws :
       scraper' = Pushed([scraper EXCEPT !.at = @ + 1, !.slept = humanDelay(u1, u2)])
  /\ UNCHANGED <<main, delay, bull, email>>

\* one link: delay, no CAPTCHA, the detail page fails to load or to parse and
\* scrapePlaceDetails returns null
DetailsFail ==
  /\ scraper.pc = "loop"
  /\ scraper.at < scraper.links
  /\ \E u1 \in U1Draws, u2 \in U2Draws :
       scraper' = [scraper EXCEPT !.at = @ + 1, !.slept = humanDelay(u1, u2)]
  /\ UNCHANGED <<main, delay, bull, email>>

\* one link: checkAndRestartSession throws; console.error, continue
LinkThrows ==
  /\ scraper.pc = "loop"
  /\ scraper.at < scraper.links
  /\ scraper' = [scraper EXCEPT !.at = @ + 1, !.slept = 0]
  /\ UNCHANGED <<main, delay, bull, email>>

\* one link: delay, detectCaptcha: CAPTCHA_DETECTED is thrown to the worker
LinkCaptcha ==
  /\ scraper.pc = "loop"
  /\ scraper.at < scraper.links
  /\ \E u1 \in U1Draws, u2 \in U2Draws :
       scraper' = [scraper EXCEPT !.pc = "captcha", !.slept = humanDelay(u1, u2)]
  /\ UNCHANGED <<main, delay, bull, email>>

\* return scrapedData
SearchDone ==
  /\ scraper.pc = "loop"
  /\ scraper.at = scraper.links
  /\ scraper' = [scraper EXCEPT !.pc = "returned"]
  /\ UNCHANGED <<main, delay, bull, email>>

NextScraper ==
  \/ LinkScraped
  \/ DetailsFail
  \/ LinkThrows
  \/ LinkCaptcha
  \/ SearchDone

SpecScraper == InitScraper /\ [][NextScraper]_vars

(* ---- the Bull queue: the life of a unit ---- *)

Units == 1..NumUnits

\* settings.maxStalledCount: Bull's default 1 (services/queue.ts sets none),
\* and 2 in the queue module that sets it
StalledCaps == {1, 2}

NewUnit == [state |-> "waiting", attemptsMade |-> 0, stalledCount |-> 0, runs |-> 0]

\* units added by addScrapeJob and resumeScrapeJob
InitBull ==
  /\ MainAtRest
  /\ ApiAtRest
  /\ delay = NoCall
  /\ scraper = NoSearch
  /\ email = NoSites
  /\ bull \in {[settings |-> [maxStalledCount |-> c], unit |-> [u \in Units |-> NewUnit]] :
                 c \in StalledCaps}

\* a free slot takes the unit: one more execution of the handler
Process(u) ==
  /\ bull.unit[u].state = "waiting"
  /\ bull' = [bull EXCEPT !.unit[u].state = "active", !.unit[u].runs = @ + 1]
  /\ UNCHANGED <<main, delay, scraper, email>>

\* the handler returns
Completes(u) ==
  /\ bull.unit[u].state = "active"
  /\ bull' = [bull EXCEPT !.unit[u].state = "completed"]
  /\ UNCHANGED <<main, delay, scraper, email>>

\* Throws for a unit added without `attempts`: every failure is retried
Throws_Unlimited(u) ==
  /\ bull.unit[u].state = "active"
  /\ bull' = [bull EXCEPT !.unit[u].attemptsMade = @ + 1, !.unit[u].state = "delayed"]
  /\ UNCHANGED <<main, delay, scraper, email>>

\* the handler throws: attempts: 3 with an exponential backoff
Throws(u) ==
  /\ bull.unit[u].state = "active"
  /\ LET made == bull.unit[u].attemptsMade + 1
     IN bull' = [bull EXCEPT !.unit[u].attemptsMade = made,
                             !.unit[u].state = IF made < MaxAttempts THEN "delayed"
                                               ELSE "failed"]
  /\ UNCHANGED <<main, delay, scraper, email>>

\* the backoff delay is over
BackoffEnds(u) ==
  /\ bull.unit[u].state = "delayed"
  /\ bull' = [bull EXCEPT !.unit[u].state = "waiting"]
  /\ UNCHANGED <<main, delay, scraper, email>>

\* the lock of an active unit expires (the process died or is blocked)
Stalls(u) ==
  /\ bull.unit[u].state = "active"
  /\ LET stalled == bull.unit[u].stalledCount + 1
     IN bull' = [bull EXCEPT !.unit[u].stalledCount = stalled,
                             !.unit[u].state = IF stalled > bull.settings.maxStalledCount
                                               THEN "failed" ELSE "waiting"]
  /\ UNCHANGED <<main, delay, scraper, email>>

NextBull ==
  \/ \E u \in Units : Process(u)
  \/ \E u \in Units : Completes(u)
  \/ \E u \in Units : Throws(u)
  \/ \E u \in Units : BackoffEnds(u)
  \/ \E u \in Units : Stalls(u)

SpecBull == InitBull /\ [][NextBull]_vars

(* ---- the enrichment worker: emailScrapeQueue.process ---- *)

Sites == 1..NumSites

\* attempts of a unit of the enrichment queue: one failure stops
EmailAttempts == 1

\* what scrapeEmails returns: no address (also when the site does not load),
\* or some
Found == {"[]", "[a@b.c]"}

\* emails.join(', ')
Join(found) == IF found = "[]" THEN "''" ELSE "'a@b.c'"

\* place.email as the scrape worker stored it at insert
StoredEmails == {"null", "'x@y.z'"}

NewSite == [state |-> "waiting", pc |-> "idle", status |-> "none", email |-> "null",
            emails |-> "none", attemptsMade |-> 0, runs |-> 0, marks |-> 0]

\* one unit per stored place that has a website
InitEmail ==
  /\ MainAtRest
  /\ ApiAtRest
  /\ delay = NoCall
  /\ scraper = NoSearch
  /\ bull = NoUnits
  /\ \E stored \in [Sites -> StoredEmails] :
       email = [pc |-> "process",
                site |-> [s \in Sites |-> [NewSite EXCEPT !.email = stored[s]]]]

\* a slot of the enrichment worker takes the unit
TakeEmail(s) ==
  /\ email.site[s].state = "waiting"
  /\ email' = [email EXCEPT !.site[s].state = "active", !.site[s].pc = "initialize",
                            !.site[s].emails = "none", !.site[s].runs = @ + 1]
  /\ UNCHANGED <<main, delay, scraper, bull>>

\* scraper.initialize() launches the browser
InitializeOk(s) ==
  /\ email.site[s].pc = "initialize"
  /\ email' = [email EXCEPT !.site[s].pc = "setScraping"]
  /\ UNCHANGED <<main, delay, scraper, bull>>

\* scraper.initialize() throws
InitializeFails(s) ==
  /\ email.site[s].pc = "initialize"
  /\ email' = [email EXCEPT !.site[s].pc = "catch"]
  /\ UNCHANGED <<main, delay, scraper, bull>>

\* update emailScrapingStatus: 'SCRAPING'
SetScraping(s) ==
  /\ email.site[s].pc = "setScraping"
  /\ email' = [email EXCEPT !.site[s].status = "SCRAPING", !.site[s].pc = "scrapeEmails"]
  /\ UNCHANGED <<main, delay, scraper, bull>>

\* scrapeEmails(website): every error of the visit is caught there
ScrapeEmails(s) ==
  /\ email.site[s].pc = "scrapeEmails"
  /\ \E found \in Found :
       email' = [email EXCEPT !.site[s].emails = found, !.site[s].pc = "setDone"]
  /\ UNCHANGED <<main, delay, scraper, bull>>

\* update email and emailScrapingStatus: 'DONE'
SetDone(s) ==
  /\ email.site[s].pc = "setDone"
  /\ email' = [email EXCEPT !.site[s].status = "DONE",
                            !.site[s].email = Join(email.site[s].emails),
                            !.site[s].pc = "return"]
  /\ UNCHANGED <<main, delay, scraper, bull>>

\* the update to DONE is rejected by the database
SetDoneFails(s) ==
  /\ email.site[s].pc = "setDone"
  /\ email' = [email EXCEPT !.site[s].pc = "catch"]
  /\ UNCHANGED <<main, delay, scraper, bull>>

\* CatchEmail that only rethrows
CatchEmail_NoMark(s) ==
  /\ email.site[s].pc = "catch"
  /\ email' = [email EXCEPT !.site[s].pc = "throw"]
  /\ UNCHANGED <<main, delay, scraper, bull>>

\* catch: update emailScrapingStatus: 'FAILED', then throw error
CatchEmail(s) ==
  /\ email.site[s].pc = "catch"
  /\ email' = [email EXCEPT !.site[s].status = "FAILED", !.site[s].marks = @ + 1,
                            !.site[s].pc = "throw"]
  /\ UNCHANGED <<main, delay, scraper, bull>>

\* finally: scraper.close(); the handler returns or its exception reaches the queue
CloseEmail(s) ==
  /\ email.site[s].pc \in {"return", "throw"}
  /\ LET made == email.site[s].attemptsMade + 1
     IN email' = [email EXCEPT
          !.site[s].pc = "idle",
          !.site[s].attemptsMade = IF email.site[s].pc = "throw" THEN made ELSE @,
          !.site[s].state = IF email.site[s].pc = "return" THEN "completed"
                            ELSE IF made < EmailAttempts THEN "waiting" ELSE "failed"]
  /\ UNCHANGED <<main, delay, scraper, bull>>

NextEmail ==
  \/ \E s \in Sites : TakeEmail(s)
  \/ \E s \in Sites : InitializeOk(s)
  \/ \E s \in Sites : InitializeFails(s)
  \/ \E s \in Sites : SetScraping(s)
  \/ \E s \in Sites : ScrapeEmails(s)
  \/ \E s \in Sites : SetDone(s)
  \/ \E s \in Sites : SetDoneFails(s)
  \/ \E s \in Sites : CatchEmail(s)
  \/ \E s \in Sites : CloseEmail(s)

SpecEmail == InitEmail /\ [][NextEmail]_vars

(* ---- services/export.ts: generateCSV ---- *)

\* the keys a job's fieldsToScrape can hold: the six groups of the job form,
\* and a key that generateCSV does not know
FieldKeys == {"city", "rating", "phone", "coordinates", "businessInfo", "socialMedia",
              "openingHours"}

\* the job's selection and its number of rows (0: nothing to export)
InitExport ==
  /\ MainAtRest
  /\ WorkAtRest
  /\ sse = NoStream /\ post = NoPost /\ session = NoSession /\ deleted = NoDelete
  /\ enrich = NoEnrich /\ patch = NoPatch /\ visit = NoVisit
  /\ csv \in {[pc |-> "call", fieldsToScrape |-> f, rows |-> n] :
                f \in SUBSET FieldKeys, n \in 0..1}

\* headers.push(...) if the selection includes the key
Push(headers, fieldsToScrape, key, columns) ==
  IF key \in fieldsToScrape THEN headers \o columns ELSE headers

\* Headers of the export that writes every column of a place
Headers_AllFields(fieldsToScrape) ==
  <<"name", "address", "city", "rating", "reviewsCount", "phone", "website", "facebook",
    "instagram", "twitter", "linkedin", "latitude", "longitude", "businessStatus",
    "businessTypes", "placeId">>

\* the ids of the CSV headers, in order
Headers(fieldsToScrape) ==
  LET h0 == <<"name", "address", "website", "placeId">>
      h1 == Push(h0, fieldsToScrape, "city", <<"city">>)
      h2 == Push(h1, fieldsToScrape, "rating", <<"rating", "reviewsCount">>)
      h3 == Push(h2, fieldsToScrape, "phone", <<"phone">>)
      h4 == Push(h3, fieldsToScrape, "coordinates", <<"latitude", "longitude">>)
      h5 == Push(h4, fieldsToScrape, "businessInfo", <<"businessStatus", "businessTypes">>)
  IN Push(h5, fieldsToScrape, "socialMedia",
          <<"facebook", "instagram", "twitter", "linkedin">>)

\* the keys of the record built for a place
RecordKeys(fieldsToScrape) ==
  {"name", "address", "website", "placeId"}
    \cup (IF "city" \in fieldsToScrape THEN {"city"} ELSE {})
    \cup (IF "rating" \in fieldsToScrape THEN {"rating", "reviewsCount"} ELSE {})
    \cup (IF "phone" \in fieldsToScrape THEN {"phone"} ELSE {})
    \cup (IF "coordinates" \in fieldsToScrape THEN {"latitude", "longitude"} ELSE {})
    \cup (IF "businessInfo" \in fieldsToScrape THEN {"businessStatus", "businessTypes"} ELSE {})
    \cup (IF "socialMedia" \in fieldsToScrape
          THEN {"facebook", "instagram", "twitter", "linkedin"} ELSE {})

\* generateCSV({ jobId }): 'No data to export' without rows, else the file
GenerateCSV ==
  /\ csv.pc = "call"
  /\ csv' = IF csv.rows = 0
            THEN [csv EXCEPT !.pc = "thrown"]
            ELSE [pc |-> "written", fieldsToScrape |-> csv.fieldsToScrape, rows |-> csv.rows,
                  headers |-> Headers(csv.fieldsToScrape),
                  record |-> RecordKeys(csv.fieldsToScrape)]
  /\ UNCHANGED <<core, work, sse, post, session, deleted, enrich, patch, visit>>

NextExport == GenerateCSV

SpecExport == InitExport /\ [][NextExport]_vars

(* ---- the progress channel: jobEvents and GET /api/sse ---- *)

Subscribers == 1..NumSubscribers

\* the two processes of a deployment: the Next.js application, which serves
\* /api/sse, and the worker started with `npm run worker`; each loads
\* services/queue.ts and has its own jobEvents
Processes == {"web", "worker"}

EventTypes == {"job:progress", "job:completed", "job:failed"}

\* searchParams.get('jobId') of a subscriber: null, or a job id
NoFilter == 0
Filters == {NoFilter} \cup Jobs \cup {OtherJob}

NoEvent == [type |-> "none", jobId |-> 0]

NewSubscriber == [state |-> "none", jobId |-> NoFilter, timers |-> {}, got |-> 0, frames |-> 0]

\* both processes are up, nobody has connected
InitEvents ==
  /\ MainAtRest
  /\ WorkAtRest
  /\ csv = NoExport /\ post = NoPost /\ session = NoSession /\ deleted = NoDelete
  /\ enrich = NoEnrich /\ patch = NoPatch /\ visit = NoVisit
  /\ sse = [listeners |-> [p \in Processes |-> [t \in EventTypes |-> {}]],
            sub |-> [c \in Subscribers |-> NewSubscriber],
            emitted |-> 0, last |-> NoEvent]

\* GET /api/sse?jobId=...: the stream starts in the web process
Connect(c) ==
  /\ sse.sub[c].state = "none"
  /\ \E f \in Filters :
       sse' = [sse EXCEPT
         !.sub[c] = [state |-> "live", jobId |-> f, timers |-> {"keepalive", "poll"},
                     got |-> 0, frames |-> 1],
         !.listeners["web"] = [t \in EventTypes |-> sse.listeners["web"][t] \cup {c}]]
  /\ UNCHANGED <<core, work, csv, post, session, deleted, enrich, patch, visit>>

\* a keepalive frame, or a status frame of the poll
TimerFires(c) ==
  /\ sse.sub[c].frames <= MaxFrames
  /\ \E timer \in sse.sub[c].timers :
       timer = "poll" => sse.sub[c].jobId # NoFilter
  /\ sse' = [sse EXCEPT !.sub[c].frames = @ + 1]
  /\ UNCHANGED <<core, work, csv, post, session, deleted, enrich, patch, visit>>

\* request.signal 'abort': timers cleared, handlers removed, stream closed
Disconnect(c) ==
  /\ sse.sub[c].state = "live"
  /\ sse' = [sse EXCEPT
       !.sub[c].state = "closed", !.sub[c].timers = {},
       !.listeners["web"] = [t \in EventTypes |-> sse.listeners["web"][t] \ {c}]]
  /\ UNCHANGED <<core, work, csv, post, session, deleted, enrich, patch, visit>>

\* handleProgress, handleCompleted, handleFailed of subscriber c
Handle(sub, data) ==
  IF sub.jobId = NoFilter \/ data.jobId = sub.jobId
  THEN [sub EXCEPT !.got = @ + 1, !.frames = @ + 1]
  ELSE sub

\* jobEvents.emit(type, data) in process p: the callbacks registered there
Emit(p, data) ==
  [c \in Subscribers |->
     IF c \in sse.listeners[p][data.type] THEN Handle(sse.sub[c], data) ELSE sse.sub[c]]

\* the scrape worker emits job:progress, job:completed or job:failed
WorkerEmits ==
  /\ sse.emitted < MaxEmits
  /\ \E t \in EventTypes, j \in Jobs :
       LET data == [type |-> t, jobId |-> j]
       IN sse' = [sse EXCEPT !.sub = Emit("worker", data),
                             !.emitted = @ + 1, !.last = data]
  /\ UNCHANGED <<core, work, csv, post, session, deleted, enrich, patch, visit>>

NextEvents ==
  \/ \E c \in Subscribers : Connect(c)
  \/ \E c \in Subscribers : TimerFires(c)
  \/ \E c \in Subscribers : Disconnect(c)
  \/ WorkerEmits

SpecEvents == InitEvents /\ [][NextEvents]_vars

(* ---- POST /api/jobs: job submission ---- *)

\* values of body.clientName and body.keywords
ClientNames == {"undefined", "''", "'Acme'"}
KeywordValues == {"undefined", "null", "'cafe'", "[]", "['cafe']", "['cafe', 'hotel']"}

\* JavaScript: !v is true for undefined, null and the empty string
Falsy(v) == v \in {"undefined", "null", "''"}

IsArray(v) == v \in {"[]", "['cafe']", "['cafe', 'hotel']"}

Length(v) ==
  CASE v = "[]" -> 0
    [] v = "['cafe']" -> 1
    [] v = "['cafe', 'hotel']" -> 2
    [] v = "'cafe'" -> 4
    [] OTHER -> 0

\* Invalid without the test of the length
Invalid_EmptyListAccepted(body) ==
  Falsy(body.clientName) \/ Falsy(body.keywords) \/ ~IsArray(body.keywords)

\* the validation of the body
Invalid(body) ==
  \/ Falsy(body.clientName)
  \/ Falsy(body.keywords)
  \/ ~IsArray(body.keywords)
  \/ Length(body.keywords) = 0

Nothing == [jobs |-> 0, logs |-> 0, units |-> 0, status |-> "none"]

\* the application is up, no submission yet
InitSubmit ==
  /\ MainAtRest
  /\ WorkAtRest
  /\ csv = NoExport /\ sse = NoStream /\ session = NoSession /\ deleted = NoDelete
  /\ enrich = NoEnrich /\ patch = NoPatch /\ visit = NoVisit
  /\ post = [pc |-> "idle", n |-> 0, body |-> "none", made |-> Nothing, resp |-> NoResp]

\* a request arrives: the body is read and validated
Validate ==
  /\ post.pc = "idle"
  /\ post.n < MaxPosts
  /\ \E c \in ClientNames, k \in KeywordValues, g \in BOOLEAN :
       LET body == [clientName |-> c, keywords |-> k, grid |-> g]
       IN post' = IF Invalid(body)
                  THEN [pc |-> "idle", n |-> post.n + 1, body |-> body, made |-> Nothing,
                        resp |-> 400]
                  ELSE [pc |-> "locate", n |-> post.n + 1, body |-> body, made |-> Nothing,
                        resp |-> NoResp]
  /\ UNCHANGED <<core, work, csv, sse, session, deleted, enrich, patch, visit>>

\* gridSize with a location: getCoordsFromLocation, which can throw
Locate ==
  /\ post.pc = "locate"
  /\ \E ok \in BOOLEAN :
       /\ ok \/ post.body.grid
       /\ post' = IF ok THEN [post EXCEPT !.pc = "create"]
                  ELSE [post EXCEPT !.pc = "idle", !.resp = 500]
  /\ UNCHANGED <<core, work, csv, sse, session, deleted, enrich, patch, visit>>

\* prisma.job.create with status PENDING, then the JOB_CREATED log
Create ==
  /\ post.pc = "create"
  /\ post' = [post EXCEPT !.pc = "enqueue",
                          !.made = [@ EXCEPT !.jobs = @ + 1, !.logs = @ + 1,
                                             !.status = "PENDING"]]
  /\ UNCHANGED <<core, work, csv, sse, session, deleted, enrich, patch, visit>>

\* addScrapeJob, which rejects when Redis is unreachable; the response
Enqueue ==
  /\ post.pc = "enqueue"
  /\ \E ok \in BOOLEAN :
       post' = IF ok
               THEN [post EXCEPT !.pc = "idle", !.made.units = @ + 1, !.resp = 200]
               ELSE [post EXCEPT !.pc = "idle", !.resp = 500]
  /\ UNCHANGED <<core, work, csv, sse, session, deleted, enrich, patch, visit>>

NextSubmit ==
  \/ Validate
  \/ Locate
  \/ Create
  \/ Enqueue

SpecSubmit == InitSubmit /\ [][NextSubmit]_vars

(* ---- services/scraper.ts: the browser session of one execution ---- *)

\* new GoogleMapsScraper(): no browser, no page, counter 0, age 0.  open
\* counts the browsers this instance launched that are still open, served
\* the places the browser it holds has delivered, last the trigger of the
\* last completed restart, exit the way the execution left its loop.
NewGoogleMapsScraper ==
  [pc |-> "new", browser |-> "null", page |-> "null", placesScrapedInSession |-> 0,
   expired |-> FALSE, open |-> 0, served |-> 0, last |-> "none", exit |-> "none"]

InitSession ==
  /\ MainAtRest
  /\ WorkAtRest
  /\ csv = NoExport /\ sse = NoStream /\ post = NoPost /\ deleted = NoDelete
  /\ enrich = NoEnrich /\ patch = NoPatch /\ visit = NoVisit
  /\ session = NewGoogleMapsScraper

\* initialize() returns, or throws in launch, in newPage or in
\* applyStealthMeasures
Outcomes == {"ok", "launchFails", "pageFails", "stealthFails"}

\* initialize(): this.browser is assigned when launch returns, this.page when
\* newPage returns
Initialize(s, outcome) ==
  CASE outcome = "launchFails" -> s
    [] outcome = "pageFails" -> [s EXCEPT !.browser = "open", !.open = @ + 1, !.served = 0]
    [] OTHER -> [s EXCEPT !.browser = "open", !.page = "open", !.open = @ + 1,
                          !.served = 0]

\* close() that forgets the browser without closing it
Close_ReferenceOnly(s) ==
  IF s.browser # "null" THEN [s EXCEPT !.browser = "null", !.page = "null"] ELSE s

\* close(): closes the browser it holds, if any
Close(s) ==
  IF s.browser # "null"
  THEN [s EXCEPT !.browser = "null", !.page = "null", !.open = @ - 1]
  ELSE s

\* the test of checkAndRestartSession without the count of places
MustRestart_AgeOnly(s) == s.expired

\* the test of checkAndRestartSession
MustRestart(s) == s.placesScrapedInSession >= SessionBudget \/ s.expired

\* a finally block that leaves the scraper alone
Finally_NoClose(s) == s

\* finally { if (scraper) await scraper.close() }
Finally(s) == Close(s)

\* the next execution constructs its own scraper
Construct ==
  /\ session.pc = "ended"
  /\ session' = NewGoogleMapsScraper
  /\ UNCHANGED <<core, work, csv, sse, post, deleted, enrich, patch, visit>>

\* await scraper.initialize(); a throw goes to the catch of the handler
ScraperInitialize ==
  /\ session.pc = "new"
  /\ \E outcome \in Outcomes :
       session' = IF outcome = "ok"
                  THEN [Initialize(session, outcome) EXCEPT !.pc = "pair"]
                  ELSE [Initialize(session, outcome) EXCEPT !.pc = "finally",
                                                            !.exit = "failed"]
  /\ UNCHANGED <<core, work, csv, sse, post, deleted, enrich, patch, visit>>

\* the top of the loop: the job was paused (close and return), or not
PauseSeen ==
  /\ session.pc = "pair"
  /\ \E paused \in BOOLEAN :
       session' = IF paused
                  THEN [Close(session) EXCEPT !.pc = "finally", !.exit = "paused"]
                  ELSE [session EXCEPT !.pc = "search"]
  /\ UNCHANGED <<core, work, csv, sse, post, deleted, enrich, patch, visit>>

\* the loops are over: the job is completed
LoopsDone ==
  /\ session.pc = "pair"
  /\ session' = [session EXCEPT !.pc = "finally", !.exit = "completed"]
  /\ UNCHANGED <<core, work, csv, sse, post, deleted, enrich, patch, visit>>

\* an error outside the catch of the pair (a datastore error)
HandlerFails ==
  /\ session.pc \in {"pair", "search"}
  /\ session' = [session EXCEPT !.pc = "finally", !.exit = "failed"]
  /\ UNCHANGED <<core, work, csv, sse, post, deleted, enrich, patch, visit>>

\* searchPlaces up to the list of links: no page or a failed navigation
\* (the pair is recorded as failed), a challenge (the job pauses), or links
SearchListing ==
  /\ session.pc = "search"
  /\ \E r \in {"links", "error", "captcha"} :
       /\ session.page = "null" => r = "error"
       /\ session' = CASE r = "links" -> [session EXCEPT !.pc = "link"]
                       [] r = "error" -> [session EXCEPT !.pc = "pair"]
                       [] OTHER -> [Close(session) EXCEPT !.pc = "finally",
                                                          !.exit = "captcha"]
  /\ UNCHANGED <<core, work, csv, sse, post, deleted, enrich, patch, visit>>

\* no link is left: searchPlaces returns
LinksDone ==
  /\ session.pc = "link"
  /\ session' = [session EXCEPT !.pc = "pair"]
  /\ UNCHANGED <<core, work, csv, sse, post, deleted, enrich, patch, visit>>

\* checkAndRestartSession, nothing to do
NoRestart ==
  /\ session.pc = "link"
  /\ ~MustRestart(session)
  /\ session' = [session EXCEPT !.pc = "fetch"]
  /\ UNCHANGED <<core, work, csv, sse, post, deleted, enrich, patch, visit>>

\* checkAndRestartSession, the budget or the age is reached: await this.close()
RestartClose ==
  /\ session.pc = "link"
  /\ MustRestart(session)
  /\ session' = [Close(session) EXCEPT !.pc = "reopen"]
  /\ UNCHANGED <<core, work, csv, sse, post, deleted, enrich, patch, visit>>

\* ... await this.initialize(), then the counter and the start time are
\* reset; a throw is caught by the loop, which goes on with the next link
RestartInitialize ==
  /\ session.pc = "reopen"
  /\ \E outcome \in Outcomes :
       session' = IF outcome = "ok"
                  THEN [Initialize(session, outcome) EXCEPT
                          !.pc = "fetch", !.placesScrapedInSession = 0,
                          !.expired = FALSE,
                          !.last = IF session.placesScrapedInSession >= SessionBudget
                                   THEN "budget" ELSE "age"]
                  ELSE [Initialize(session, outcome) EXCEPT !.pc = "link"]
  /\ UNCHANGED <<core, work, csv, sse, post, deleted, enrich, patch, visit>>

\* detectCaptcha and scrapePlaceDetails: a challenge (thrown up to the
\* handler, which pauses the job), a place, or nothing
FetchDetails ==
  /\ session.pc = "fetch"
  /\ \E r \in {"place", "null", "captcha"} :
       /\ session.page = "null" => r = "null"
       /\ session' = CASE r = "place" ->
                            [session EXCEPT !.pc = "link",
                                            !.placesScrapedInSession = @ + 1,
                                            !.served = @ + 1]
                       [] r = "null" -> [session EXCEPT !.pc = "link"]
                       [] OTHER -> [Close(session) EXCEPT !.pc = "finally",
                                                          !.exit = "captcha"]
  /\ UNCHANGED <<core, work, csv, sse, post, deleted, enrich, patch, visit>>

\* thirty minutes have passed since sessionStartTime
SessionAges ==
  /\ session.pc \notin {"new", "finally", "ended"}
  /\ ~session.expired
  /\ session' = [session EXCEPT !.expired = TRUE]
  /\ UNCHANGED <<core, work, csv, sse, post, deleted, enrich, patch, visit>>

\* the finally block of the handler
CloseAtEnd ==
  /\ session.pc = "finally"
  /\ session' = [Finally(session) EXCEPT !.pc = "ended"]
  /\ UNCHANGED <<core, work, csv, sse, post, deleted, enrich, patch, visit>>

NextSession ==
  \/ Construct
  \/ ScraperInitialize
  \/ PauseSeen
  \/ LoopsDone
  \/ HandlerFails
  \/ SearchListing
  \/ LinksDone
  \/ NoRestart
  \/ RestartClose
  \/ RestartInitialize
  \/ FetchDetails
  \/ SessionAges
  \/ CloseAtEnd

SpecSession == InitSession /\ [][NextSession]_vars

(* ---- DELETE /api/jobs/[id] and the execution it meets ---- *)

\* ids a request can carry: the id of the job, and an id no job has
TheJob == 1
UnknownId == 2

\* the job as POST /api/jobs left it: its row, its JOB_CREATED log entry and
\* its unit in the queue; no execution, no request.  refused tells whether
\* a write of the execution has been rejected for want of the job row.
InitDelete ==
  /\ MainAtRest
  /\ WorkAtRest
  /\ csv = NoExport /\ sse = NoStream /\ post = NoPost /\ session = NoSession
  /\ enrich = NoEnrich /\ patch = NoPatch /\ visit = NoVisit
  /\ deleted = [pc |-> "idle", id |-> 0, resp |-> NoResp,
                row |-> TRUE, places |-> 0, failures |-> 0, logs |-> 1,
                unit |-> "waiting", att |-> 0, wpc |-> "idle", refused |-> FALSE]

\* the rows of the job in the datastore
Rows(d) == [row |-> d.row, places |-> d.places, failures |-> d.failures, logs |-> d.logs]

\* a datastore in which a child row needs no job row
ForeignKey_NotEnforced(d) == TRUE

\* the relation of scrapedPlace, failedScrape and systemLog to their job: a
\* row can be created only for a job that exists
ForeignKey(d) == d.row

\* prisma.job.update throws when no row has the id
CanUpdate(d) == d.row

\* findUnique; no job has this id: 404
DeleteFind(id) ==
  /\ deleted.pc = "idle"
  /\ deleted' = IF id = TheJob /\ deleted.row
                THEN [deleted EXCEPT !.pc = "found", !.id = id, !.resp = NoResp]
                ELSE [deleted EXCEPT !.id = id, !.resp = 404]
  /\ UNCHANGED <<core, work, csv, sse, post, session, enrich, patch, visit>>

\* prisma.$transaction([deleteMany x 3, job.delete]): all four or, when the
\* transaction fails, none (500)
DeleteTransaction ==
  /\ deleted.pc = "found"
  /\ \E ok \in BOOLEAN :
       deleted' = IF ok /\ deleted.row
                  THEN [deleted EXCEPT !.pc = "idle", !.resp = 200, !.row = FALSE,
                                       !.places = 0, !.failures = 0, !.logs = 0]
                  ELSE [deleted EXCEPT !.pc = "idle", !.resp = 500]
  /\ UNCHANGED <<core, work, csv, sse, post, session, enrich, patch, visit>>

\* the execution moves to pc; a write that found no job row is noted
Goto(pc, ok) == [deleted EXCEPT !.wpc = pc, !.refused = @ \/ ~ok]

\* Bull hands the unit to the handler
Start ==
  /\ deleted.unit = "waiting" /\ deleted.wpc = "idle"
  /\ deleted' = [deleted EXCEPT !.unit = "active", !.wpc = "find"]
  /\ UNCHANGED <<core, work, csv, sse, post, session, enrich, patch, visit>>

\* findUnique: Job not found in database
FindJob ==
  /\ deleted.wpc = "find"
  /\ deleted' = Goto(IF deleted.row THEN "running" ELSE "catch", deleted.row)
  /\ UNCHANGED <<core, work, csv, sse, post, session, enrich, patch, visit>>

\* job.update to RUNNING
MarkRunning ==
  /\ deleted.wpc = "running"
  /\ deleted' = Goto(IF CanUpdate(deleted) THEN "logStart" ELSE "catch", CanUpdate(deleted))
  /\ UNCHANGED <<core, work, csv, sse, post, session, enrich, patch, visit>>

\* systemLog.create JOB_STARTED
LogStart ==
  /\ deleted.wpc = "logStart"
  /\ deleted' = IF ForeignKey(deleted)
                THEN [Goto("loop", TRUE) EXCEPT !.logs = @ + 1]
                ELSE Goto("catch", FALSE)
  /\ UNCHANGED <<core, work, csv, sse, post, session, enrich, patch, visit>>

\* the top of the loop: findUnique for the pause check (a missing row is not
\* PAUSED), then the update of the cursor
Cursor ==
  /\ deleted.wpc = "loop"
  /\ deleted.places < MaxRows /\ deleted.failures < MaxRows
  /\ deleted' = Goto(IF CanUpdate(deleted) THEN "search" ELSE "catch", CanUpdate(deleted))
  /\ UNCHANGED <<core, work, csv, sse, post, session, enrich, patch, visit>>

\* searchPlaces returns places, or throws into the catch of the pair
Search ==
  /\ deleted.wpc = "search"
  /\ \E found \in BOOLEAN :
       deleted' = Goto(IF found THEN "save" ELSE "fail", TRUE)
  /\ UNCHANGED <<core, work, csv, sse, post, session, enrich, patch, visit>>

\* scrapedPlace.create; an error other than P2002 is thrown on to the catch
\* of the pair
SavePlace ==
  /\ deleted.wpc = "save"
  /\ deleted' = IF ForeignKey(deleted)
                THEN [Goto("progress", TRUE) EXCEPT !.places = @ + 1]
                ELSE Goto("fail", FALSE)
  /\ UNCHANGED <<core, work, csv, sse, post, session, enrich, patch, visit>>

\* job.update of scrapedCount, inside the same try
CountPlace ==
  /\ deleted.wpc = "progress"
  /\ deleted' = Goto(IF CanUpdate(deleted) THEN "loop" ELSE "fail", CanUpdate(deleted))
  /\ UNCHANGED <<core, work, csv, sse, post, session, enrich, patch, visit>>

\* the catch of the pair: failedScrape.create; its own error leaves the loop
LogFailure ==
  /\ deleted.wpc = "fail"
  /\ deleted' = IF ForeignKey(deleted)
                THEN [Goto("failCount", TRUE) EXCEPT !.failures = @ + 1]
                ELSE Goto("catch", FALSE)
  /\ UNCHANGED <<core, work, csv, sse, post, session, enrich, patch, visit>>

\* ... then job.update of failedCount
CountFailure ==
  /\ deleted.wpc = "failCount"
  /\ deleted' = Goto(IF CanUpdate(deleted) THEN "loop" ELSE "catch", CanUpdate(deleted))
  /\ UNCHANGED <<core, work, csv, sse, post, session, enrich, patch, visit>>

\* the loops are over: job.update to COMPLETED
MarkCompleted ==
  /\ deleted.wpc = "loop"
  /\ deleted' = Goto(IF CanUpdate(deleted) THEN "logDone" ELSE "catch", CanUpdate(deleted))
  /\ UNCHANGED <<core, work, csv, sse, post, session, enrich, patch, visit>>

\* ... then systemLog.create JOB_COMPLETED; the unit is done
LogCompleted ==
  /\ deleted.wpc = "logDone"
  /\ deleted' = IF ForeignKey(deleted)
                THEN [Goto("idle", TRUE) EXCEPT !.logs = @ + 1, !.unit = "none"]
                ELSE Goto("catch", FALSE)
  /\ UNCHANGED <<core, work, csv, sse, post, session, enrich, patch, visit>>

\* the catch of the handler: job.update to FAILED; its own error rejects the
\* execution at once
MarkFailed ==
  /\ deleted.wpc = "catch"
  /\ deleted' = Goto(IF CanUpdate(deleted) THEN "logFailed" ELSE "reject", CanUpdate(deleted))
  /\ UNCHANGED <<core, work, csv, sse, post, session, enrich, patch, visit>>

\* ... then systemLog.create JOB_FAILED, and throw error
LogFailed ==
  /\ deleted.wpc = "logFailed"
  /\ deleted' = IF ForeignKey(deleted)
                THEN [Goto("reject", TRUE) EXCEPT !.logs = @ + 1]
                ELSE Goto("reject", FALSE)
  /\ UNCHANGED <<core, work, csv, sse, post, session, enrich, patch, visit>>

\* Bull: the unit waits for its next attempt, or has failed for good
Reject ==
  /\ deleted.wpc = "reject"
  /\ deleted' = [deleted EXCEPT !.wpc = "idle", !.att = @ + 1,
                                !.unit = IF deleted.att + 1 < MaxAttempts
                                         THEN "waiting" ELSE "none"]
  /\ UNCHANGED <<core, work, csv, sse, post, session, enrich, patch, visit>>

\* a datastore error that has nothing to do with the row
OtherError ==
  /\ deleted.wpc \in {"running", "loop", "search"}
  /\ deleted' = Goto("catch", TRUE)
  /\ UNCHANGED <<core, work, csv, sse, post, session, enrich, patch, visit>>

NextDelete ==
  \/ \E id \in {TheJob, UnknownId} : DeleteFind(id)
  \/ DeleteTransaction
  \/ Start
  \/ FindJob
  \/ MarkRunning
  \/ LogStart
  \/ Cursor
  \/ Search
  \/ SavePlace
  \/ CountPlace
  \/ LogFailure
  \/ CountFailure
  \/ MarkCompleted
  \/ LogCompleted
  \/ MarkFailed
  \/ LogFailed
  \/ Reject
  \/ OtherError

SpecDelete == InitDelete /\ [][NextDelete]_vars

(* ---- the save loop and addEmailScrapeJob ---- *)

\* what searchPlaces hands to the save loop: places with or without a website
FoundPlaces == [placeId : PlaceIds, website : BOOLEAN]
FoundLists == SeqsUpTo(FoundPlaces, MaxFound)

\* an execution at the search of its first pair; place 1 was stored, with a
\* website, by another job, which enqueued its enrichment unit
InitEnrich ==
  /\ MainAtRest
  /\ WorkAtRest
  /\ csv = NoExport /\ sse = NoStream /\ post = NoPost /\ session = NoSession
  /\ deleted = NoDelete /\ patch = NoPatch /\ visit = NoVisit
  /\ enrich = [pc |-> "search", k |-> 0, found |-> <<>>, p |-> 0,
               rows |-> {[placeId |-> 1, website |-> TRUE]},
               units |-> [pid \in PlaceIds |-> IF pid = 1 THEN 1 ELSE 0],
               faults |-> 0]

\* the place the save loop is at
Place(e) == e.found[e.p + 1]

\* the next place of the list, or the next pair
NextPlace(e) ==
  IF e.p + 1 < Len(e.found)
  THEN [e EXCEPT !.pc = "create", !.p = @ + 1]
  ELSE [e EXCEPT !.pc = "search", !.k = @ + 1, !.found = <<>>, !.p = 0]

\* an error thrown out of the save loop: the catch of the pair records the
\* failure and the loop of the pairs goes on
PairFails(e) ==
  [e EXCEPT !.pc = "search", !.k = @ + 1, !.found = <<>>, !.p = 0, !.faults = @ + 1]

\* if (place.website)
Wanted(place) == place.website

\* scraper.searchPlaces returns the places of the pair
PairSearch ==
  /\ enrich.pc = "search"
  /\ enrich.k < NumKeywords
  /\ \E r \in FoundLists :
       enrich' = IF r = <<>> THEN [enrich EXCEPT !.k = @ + 1]
                 ELSE [enrich EXCEPT !.pc = "create", !.found = r, !.p = 0]
  /\ UNCHANGED <<core, work, csv, sse, post, session, deleted, patch, visit>>

\* scrapedPlace.create: P2002 for a stored placeId (continue), else the row
PlaceCreate ==
  /\ enrich.pc = "create"
  /\ enrich' = IF \E row \in enrich.rows : row.placeId = Place(enrich).placeId
               THEN NextPlace(enrich)
               ELSE [enrich EXCEPT !.pc = "update", !.rows = @ \cup {Place(enrich)}]
  /\ UNCHANGED <<core, work, csv, sse, post, session, deleted, patch, visit>>

\* job.update of scrapedCount, which the datastore can reject
ScrapedCountUpdate ==
  /\ enrich.pc = "update"
  /\ \E ok \in BOOLEAN :
       /\ ~ok => enrich.faults < MaxFaults
       /\ enrich' = IF ~ok THEN PairFails(enrich)
                    ELSE IF Wanted(Place(enrich)) THEN [enrich EXCEPT !.pc = "enqueue"]
                    ELSE NextPlace(enrich)
  /\ UNCHANGED <<core, work, csv, sse, post, session, deleted, patch, visit>>

\* addEmailScrapeJob({ placeId, website }), which Redis can reject
AddEmailScrapeJob ==
  /\ enrich.pc = "enqueue"
  /\ \E ok \in BOOLEAN :
       /\ ~ok => enrich.faults < MaxFaults
       /\ enrich' = IF ok
                    THEN [NextPlace(enrich) EXCEPT !.units[Place(enrich).placeId] = @ + 1]
                    ELSE PairFails(enrich)
  /\ UNCHANGED <<core, work, csv, sse, post, session, deleted, patch, visit>>

NextEnrich ==
  \/ PairSearch
  \/ PlaceCreate
  \/ ScrapedCountUpdate
  \/ AddEmailScrapeJob

SpecEnrich == InitEnrich /\ [][NextEnrich]_vars

(* ---- PATCH /api/jobs/[id]/resume, one await at a time ---- *)

\* the two revisions of the queue module in the sources: services/queue.ts
\* lets Bull number the units, part_004 passes the id of the job as the id of
\* the unit, on create and on resume
Revisions == {"queue.ts", "part_004"}

\* the requests that can be in the handler at the same time
Requests == 1..NumRequests

\* scrapeQueue.add under the revision: Bull does not add a unit whose id is
\* already in the store, and finished units stay there (removeOnComplete and
\* removeOnFail are false)
QueueAdd(p) ==
  IF p.rev = "part_004" /\ p.waiting + p.active + p.kept > 0
  THEN p
  ELSE [p EXCEPT !.waiting = @ + 1, !.added = @ + 1]

\* a job that was created, dispatched and paused in its first execution: the
\* unit of the creation has finished and is kept in the store
InitResume ==
  /\ MainAtRest
  /\ WorkAtRest
  /\ csv = NoExport /\ sse = NoStream /\ post = NoPost /\ session = NoSession
  /\ deleted = NoDelete /\ enrich = NoEnrich /\ visit = NoVisit
  /\ \E rev \in Revisions :
       patch = [rev |-> rev, status |-> "PAUSED", pauseReason |-> CaptchaReason,
                resumed |-> 0, transitions |-> 0, accepted |-> 0, n |-> 0,
                added |-> 1, waiting |-> 0, active |-> 0, kept |-> 1, pauses |-> 0,
                req |-> [r \in Requests |-> [pc |-> "idle", resp |-> NoResp]]]

\* a request leaves the handler with a response
Respond(p, r, code) ==
  [p EXCEPT !.req[r] = [pc |-> "idle", resp |-> code],
            !.accepted = IF code = 200 THEN @ + 1 ELSE @]

\* prisma.job.findUnique and the test of the status
ResumeFind(r) ==
  /\ patch.rev # "none"
  /\ patch.req[r].pc = "idle"
  /\ patch.n < MaxPatches
  /\ patch' = IF patch.status # "PAUSED"
              THEN [Respond(patch, r, 400) EXCEPT !.n = @ + 1]
              ELSE [patch EXCEPT !.n = @ + 1, !.req[r] = [pc |-> "update", resp |-> NoResp]]
  /\ UNCHANGED <<core, work, csv, sse, post, session, deleted, enrich, visit>>

\* prisma.job.update: status PENDING, pauseReason null
ResumeUpdate(r) ==
  /\ patch.rev # "none"
  /\ patch.req[r].pc = "update"
  /\ patch' = [patch EXCEPT !.status = "PENDING", !.pauseReason = NoReason,
                            !.transitions = IF patch.status = "PAUSED" THEN @ + 1 ELSE @,
                            !.req[r].pc = "log"]
  /\ UNCHANGED <<core, work, csv, sse, post, session, deleted, enrich, visit>>

\* prisma.systemLog.create JOB_RESUMED; a rejection goes to the catch: 500
ResumeLog(r) ==
  /\ patch.rev # "none"
  /\ patch.req[r].pc = "log"
  /\ \E ok \in BOOLEAN :
       patch' = IF ok
                THEN [patch EXCEPT !.resumed = @ + 1, !.req[r].pc = "enqueue"]
                ELSE Respond(patch, r, 500)
  /\ UNCHANGED <<core, work, csv, sse, post, session, deleted, enrich, visit>>

\* resumeScrapeJob, then the response; a rejection goes to the catch: 500
ResumeEnqueue(r) ==
  /\ patch.rev # "none"
  /\ patch.req[r].pc = "enqueue"
  /\ \E ok \in BOOLEAN :
       patch' = IF ok
                THEN Respond(QueueAdd(patch), r, 200)
                ELSE Respond(patch, r, 500)
  /\ UNCHANGED <<core, work, csv, sse, post, session, deleted, enrich, visit>>

\* the worker takes a waiting unit and reads the job: a paused job is
\* skipped and the unit finishes, any other job is set to RUNNING
UnitStarts ==
  /\ patch.rev # "none"
  /\ patch.waiting > 0
  /\ patch.active = 0
  /\ patch' = IF patch.status = "PAUSED"
              THEN [patch EXCEPT !.waiting = @ - 1, !.kept = @ + 1]
              ELSE [patch EXCEPT !.waiting = @ - 1, !.active = 1, !.status = "RUNNING"]
  /\ UNCHANGED <<core, work, csv, sse, post, session, deleted, enrich, visit>>

\* the execution meets a challenge: the job is paused and the unit finishes
UnitPaused ==
  /\ patch.rev # "none"
  /\ patch.active = 1
  /\ patch.pauses < MaxPauses
  /\ patch' = [patch EXCEPT !.active = 0, !.kept = @ + 1, !.status = "PAUSED",
                            !.pauseReason = CaptchaReason, !.pauses = @ + 1]
  /\ UNCHANGED <<core, work, csv, sse, post, session, deleted, enrich, visit>>

\* the execution reaches the end of its loops: COMPLETED
UnitCompletes ==
  /\ patch.rev # "none"
  /\ patch.active = 1
  /\ patch' = [patch EXCEPT !.active = 0, !.kept = @ + 1, !.status = "COMPLETED"]
  /\ UNCHANGED <<core, work, csv, sse, post, session, deleted, enrich, visit>>

NextResume ==
  \/ \E r \in Requests : ResumeFind(r)
  \/ \E r \in Requests : ResumeUpdate(r)
  \/ \E r \in Requests : ResumeLog(r)
  \/ \E r \in Requests : ResumeEnqueue(r)
  \/ UnitStarts
  \/ UnitPaused
  \/ UnitCompletes

SpecResume == InitResume /\ [][NextResume]_vars

(* ---- the navigations of an execution and detectCaptcha ---- *)

\* what the page of the browser shows: nothing yet, the result list, a place,
\* or an interstitial carrying one of the selectors or phrases of detectCaptcha
Pages == {"blank", "results", "place", "challenge"}

\* detectCaptcha(page): a selector of the list is present or the body text
\* holds one of the phrases
detectCaptcha(page) == page = "challenge"

\* an execution with its session initialized, before the search of its first
\* pair.  unseen: a challenge was served and no detectCaptcha has seen it
InitVisit ==
  /\ MainAtRest
  /\ WorkAtRest
  /\ csv = NoExport /\ sse = NoStream /\ post = NoPost /\ session = NoSession
  /\ deleted = NoDelete /\ enrich = NoEnrich /\ patch = NoPatch
  /\ visit = [pc |-> "goto", k |-> 0, links |-> 0, page |-> "blank", status |-> "RUNNING",
              served |-> FALSE, unseen |-> FALSE, restarts |-> 0, failed |-> 0]

\* the page after a navigation that was answered with what
Shown(v, what) ==
  [v EXCEPT !.page = what,
            !.served = @ \/ what = "challenge",
            !.unseen = @ \/ what = "challenge"]

\* CAPTCHA_DETECTED reaches the worker: status PAUSED, the execution returns
Challenged(v) ==
  [v EXCEPT !.pc = "paused", !.status = "PAUSED", !.unseen = FALSE]

\* searchPlaces: page.goto(searchUrl); a goto that throws fails the pair,
\* which the worker records before it goes on with the next pair
ListingGoto ==
  /\ visit.pc = "goto"
  /\ visit.k < NumKeywords
  /\ \E what \in {"results", "challenge", "error"} :
       visit' = IF what = "error"
                THEN [visit EXCEPT !.k = @ + 1, !.failed = @ + 1]
                ELSE [Shown(visit, what) EXCEPT !.pc = "detect"]
  /\ UNCHANGED <<core, work, csv, sse, post, session, deleted, enrich, patch>>

\* searchPlaces: detectCaptcha after the goto, then the links of the list
ListingDetect ==
  /\ visit.pc = "detect"
  /\ \E n \in 0..MaxDetailLinks :
       visit' = IF detectCaptcha(visit.page)
                THEN Challenged(visit)
                ELSE [visit EXCEPT !.pc = "link", !.links = n]
  /\ UNCHANGED <<core, work, csv, sse, post, session, deleted, enrich, patch>>

\* one link: checkAndRestartSession, which opens a fresh page when the
\* session is due, humanDelay, then detectCaptcha on the page as it is
LinkCheck ==
  /\ visit.pc = "link"
  /\ visit.links > 0
  /\ \E restart \in BOOLEAN :
       /\ restart => visit.restarts < MaxRestarts
       /\ LET v == IF restart
                   THEN [visit EXCEPT !.page = "blank", !.restarts = @ + 1]
                   ELSE visit
          IN visit' = IF detectCaptcha(v.page)
                      THEN Challenged(v)
                      ELSE [v EXCEPT !.pc = "details"]
  /\ UNCHANGED <<core, work, csv, sse, post, session, deleted, enrich, patch>>

\* scrapePlaceDetails: page.goto(fullUrl); on an interstitial the wait for
\* h1 times out, the catch returns null and the loop goes to the next link
DetailsGoto ==
  /\ visit.pc = "details"
  /\ \E what \in {"place", "challenge"} :
       visit' = [Shown(visit, what) EXCEPT !.pc = "link", !.links = @ - 1]
  /\ UNCHANGED <<core, work, csv, sse, post, session, deleted, enrich, patch>>

\* return scrapedData: the worker saves the places and takes the next pair
ListReturned ==
  /\ visit.pc = "link"
  /\ visit.links = 0
  /\ visit' = [visit EXCEPT !.pc = "goto", !.k = @ + 1]
  /\ UNCHANGED <<core, work, csv, sse, post, session, deleted, enrich, patch>>

\* the loops are over: status COMPLETED
JobCompleted ==
  /\ visit.pc = "goto"
  /\ visit.k = NumKeywords
  /\ visit' = [visit EXCEPT !.pc = "done", !.status = "COMPLETED"]
  /\ UNCHANGED <<core, work, csv, sse, post, session, deleted, enrich, patch>>

NextVisit ==
  \/ ListingGoto
  \/ ListingDetect
  \/ LinkCheck
  \/ DetailsGoto
  \/ ListReturned
  \/ JobCompleted

SpecVisit == InitVisit /\ [][NextVisit]_vars

(* ---- what the claims speak about ---- *)

\* the (term, location) pairs of job j; a job without locations has the one
\* synthetic location 0 per term
Pairs(j) == {<<a, b>> : a \in 0..(cfg[j].nKw - 1),
                        b \in 0..((IF HasLocations(j) THEN NumSearchLocations(j) ELSE 1) - 1)}

Before(p, q) == p[1] < q[1] \/ (p[1] = q[1] /\ p[2] < q[2])

Executors(j) == {w \in Workers : IsActive(w) /\ worker[w].job = j}

RowsOf(j) == {row \in places : row.jobId = j}

\* execution w calls searchPlaces in this step
SearchStep(w) == worker[w].pc = "search" /\ worker'[w] # worker[w]

Logged(j, e) == logs'[j][e] > logs[j][e]

StatusEdges == {<<"PENDING", "RUNNING">>, <<"RUNNING", "COMPLETED">>,
                <<"RUNNING", "FAILED">>, <<"RUNNING", "PAUSED">>,
                <<"PAUSED", "PENDING">>}

\* C1: after any pause/resume cycle the worker continues at the next
\* unprocessed (term, location) pair: a pair whose processing has finished is
\* never searched again, and no pair is searched before every earlier pair
\* has finished.
C1_ResumeAtNextPair ==
  [][\A w \in Workers : SearchStep(w) =>
       LET j == worker[w].job
           at == <<worker[w].i, worker[w].j>>
       IN /\ at \notin finished[j]
          /\ \A q \in Pairs(j) : Before(q, at) => q \in finished[j]]_vars

\* C2: at every moment at most one worker execution is processing a job.
C2_SingleExecutorPerJob == \A j \in Jobs : Cardinality(Executors(j)) <= 1

\* C3: the persisted status changes only along Pending->Running,
\* Running->Completed, Running->Failed, Running->Paused and Paused->Pending.
C3_StatusEdges ==
  [][\A j \in Jobs : job'[j].status # job[j].status =>
       <<job[j].status, job'[j].status>> \in StatusEdges]_vars

\* C4: Completed and Failed are terminal: once a job's status is Completed or
\* Failed no later step changes it.
C4_TerminalStatuses ==
  [][\A j \in Jobs : job[j].status \in {"COMPLETED", "FAILED"} =>
       job'[j].status = job[j].status]_vars

UniquePlaceIds == \A r1 \in places : \A r2 \in places : r1.placeId = r2.placeId => r1 = r2

\* execution w attempts the insert of a place whose placeId is already stored
DuplicateStep(w) ==
  /\ worker[w].pc = "save"
  /\ worker'[w] # worker[w]
  /\ Stored(worker[w].found[worker[w].p + 1])

\* C5: the placeId is unique across the datastore, and an insert of a stored
\* placeId is swallowed: no row is added, no counter, status or failure
\* record changes, and the worker goes on with the next place.
C5_DuplicateSwallowed ==
  /\ []UniquePlaceIds
  /\ [][\A w \in Workers : DuplicateStep(w) =>
          /\ places' = places
          /\ job' = job
          /\ failures' = failures
          /\ logs' = logs
          /\ worker'[w].ts = worker[w].ts
          /\ worker'[w].tf = worker[w].tf
          /\ IF worker[w].p + 1 < Len(worker[w].found)
             THEN /\ worker'[w].pc = "save"
                  /\ worker'[w].p = worker[w].p + 1
                  /\ worker'[w].found = worker[w].found
             ELSE worker'[w].pc \in {"search", "kwTop"}]_vars

\* a duplicate was swallowed and the worker is at the next place of the pair
C5_Witness ==
  \E w \in Workers : /\ worker[w].pc = "save"
                     /\ worker[w].dup >= 1
                     /\ worker[w].p >= 1
                     /\ UniquePlaceIds

\* C6: when the challenge detector fires the job ends in Paused with a pause
\* reason, scrapedCount equals the number of records the job has committed,
\* the worker returns, and no record of the job is committed while the job
\* stays paused for the challenge.
C6_ChallengePause ==
  [][\A j \in Jobs :
       /\ Logged(j, "CAPTCHA_DETECTED") =>
            /\ job'[j].status = "PAUSED"
            /\ job'[j].pauseReason # NoReason
            /\ job'[j].scrapedCount = Cardinality(RowsOf(j))
            /\ \E w \in Workers : /\ worker[w].job = j
                                  /\ worker[w].pc = "search"
                                  /\ worker'[w] = IdleWorker
       /\ (job[j].status = "PAUSED" /\ job[j].pauseReason = CaptchaReason
             /\ ~Logged(j, "JOB_RESUMED")) =>
            RowsOf(j)' = RowsOf(j)]_vars

CleanRun(j) ==
  /\ logs[j]["JOB_STARTED"] = 1
  /\ logs[j]["CAPTCHA_DETECTED"] = 0
  /\ logs[j]["JOB_FAILED"] = 0
  /\ failures[j] = <<>>

\* execution w leaves the keyword loop and completes its job
CompleteStep(w) ==
  /\ worker[w].pc = "kwTop"
  /\ worker'[w] # worker[w]
  /\ Logged(worker[w].job, "JOB_COMPLETED")

\* C7 as stated: a run without challenge and per-record error ends in
\* Completed with scrapedCount equal to the sum of the records returned for
\* the pairs, and failedCount 0.
C7_CountsAllReturned ==
  [][\A w \in Workers : (CompleteStep(w) /\ CleanRun(worker[w].job)) =>
       LET j == worker[w].job
       IN /\ job'[j].status = "COMPLETED"
          /\ job'[j].scrapedCount = worker[w].ret
          /\ job'[j].failedCount = 0]_vars

\* C7 as amended: such a run (never paused) ends in Completed with
\* scrapedCount equal to the number of returned records, after the cap, that
\* were not already stored, which is the number of rows the job stored; the
\* failedCount is 0.
C7_CountsNewlyStored ==
  [][\A w \in Workers : (CompleteStep(w) /\ CleanRun(worker[w].job)) =>
       LET j == worker[w].job
       IN /\ job'[j].status = "COMPLETED"
          /\ job'[j].scrapedCount = worker[w].ret - worker[w].dup
          /\ job'[j].scrapedCount = Cardinality(RowsOf(j))
          /\ job'[j].failedCount = 0]_vars

\* a clean run has completed and stored a record
C7_Witness ==
  \E j \in Jobs : /\ job[j].status = "COMPLETED"
                  /\ logs[j]["JOB_COMPLETED"] = 1
                  /\ CleanRun(j)
                  /\ job[j].scrapedCount >= 1

\* C8: pause is accepted only from Running and resume only from Paused; a
\* rejected request (job missing or in another status) changes no job field,
\* writes no log entry, sends no notification and enqueues no unit.
C8_RejectedRequestChangesNothing ==
  [][/\ (resp' # resp /\ resp' \in {400, 404}) =>
          UNCHANGED <<job, places, failures, logs, notes, queue, worker, pausing, resuming>>
     /\ \A id \in Jobs :
          /\ pausing'[id] > pausing[id] => job[id].status = "RUNNING"
          /\ resuming'[id] > resuming[id] => job[id].status = "PAUSED"
          /\ (Logged(id, "JOB_PAUSED") \/ notes'[id]["paused"] > notes[id]["paused"])
               => pausing[id] > 0
          /\ Logged(id, "JOB_RESUMED") => resuming[id] > 0]_vars

\* a request has just been refused for the status of the job
C8_Witness == resp = 400 /\ \E j \in Jobs : job[j].status \in {"PENDING", "COMPLETED", "FAILED"}

\* C9: a job paused for a challenge stays Paused until a resume request: no
\* worker execution and no retry moves it out of Paused or searches for it.
C9_ChallengePauseNeedsResume ==
  [][\A j \in Jobs : (job[j].status = "PAUSED" /\ job[j].pauseReason = CaptchaReason) =>
       /\ job'[j].status = "PAUSED" \/ Logged(j, "JOB_RESUMED")
       /\ \A w \in Workers : worker[w].job = j => ~SearchStep(w)]_vars

\* C10: a non-challenge error of one pair appends exactly one failure record,
\* increments the persisted failedCount by one, leaves the status alone and
\* the worker continues with the next location or term.
C10_PairErrorIsolated ==
  [][\A w \in Workers :
       LET j == worker[w].job
       IN /\ (worker[w].pc = "search" /\ worker'[w].pc = "failUpdate") =>
               /\ Len(failures'[j]) = Len(failures[j]) + 1
               /\ job'[j].status = job[j].status
          /\ (worker[w].pc = "failUpdate" /\ worker'[w] # worker[w]) =>
               /\ failures' = failures
               /\ job'[j].failedCount = job[j].failedCount + 1
               /\ job'[j].status = job[j].status
               /\ worker'[w].pc \in {"search", "kwTop"}]_vars

CatchStep(w) == worker[w].pc = "catch" /\ worker'[w] # worker[w]

RethrowStep(w) == worker[w].pc = "rethrow" /\ worker'[w] # worker[w]

Noted(j, k) == notes'[j][k] > notes[j][k]

C15_CapPerTerm ==
  \A j \in Jobs : cfg[j].nKw = 1 => Cardinality(RowsOf(j)) <= cfg[j].cap

\* C16: at no moment are two scrape executions active in the worker process.
C16_OneExecutionAtATime == Cardinality({w \in Workers : IsActive(w)}) <= 1

\* the handler takes a unit of a job that is not paused
DispatchStep(w) == worker[w].pc = "idle" /\ worker'[w].pc = "setRunning"

\* C17: every entry of a job by the worker, a re-entry after a resume or a
\* retry included, starts the term loop at the persisted currentKeywordIndex
\* and counts on from the persisted scrapedCount and failedCount.
C17_ReentryAtPersistedCursor ==
  [][\A w \in Workers :
       /\ DispatchStep(w) =>
            LET j == worker'[w].job
            IN /\ worker'[w].i = job[j].currentKeywordIndex
               /\ worker'[w].ts = job[j].scrapedCount
               /\ worker'[w].tf = job[j].failedCount
       /\ (worker[w].pc = "setRunning" /\ worker'[w].pc = "kwTop") =>
            /\ worker'[w].i = worker[w].i
            /\ worker'[w].ts = worker[w].ts
            /\ worker'[w].tf = worker[w].tf]_vars

\* a resumed or retried job is entered past term 0 with a stored record counted
C17_Witness ==
  \E w \in Workers :
    /\ worker[w].pc = "setRunning"
    /\ worker[w].i >= 1
    /\ worker[w].ts >= 1
    /\ logs[worker[w].job]["JOB_RESUMED"] + worker[w].att >= 1

\* a link of the search ends in a per-record error: its detail page fails, or
\* its iteration throws
LinkErrorStep ==
  /\ scraper.pc = "loop"
  /\ scraper'.pc = "loop"
  /\ scraper'.at = scraper.at + 1
  /\ scraper'.len = scraper.len

\* the job whose worker is inside searchPlaces
Searching(j) == \E w \in Workers : worker[w].pc = "search" /\ worker[w].job = j

\* C11: every per-record error other than a challenge or a duplicate key
\* produces a failure record and increments the failed counter, and the loop
\* goes on with the next link of the pair.
C11_PerRecordErrorRecorded ==
  [][LinkErrorStep =>
       \A j \in Jobs : Searching(j) =>
         /\ Len(failures'[j]) = Len(failures[j]) + 1
         /\ job'[j].failedCount = job[j].failedCount + 1]_vars

\* C14: every delay taken between the records of a job lies in the job's
\* [minDelay, maxDelay], and a rest of the job's cooldownDuration has been
\* taken after every cooldownAfter scraped records.
C14_JobPacingApplied ==
  scraper.pc # "none" =>
    /\ scraper.slept # 0 =>
         /\ scraper.jobData.minDelay <= scraper.slept
         /\ scraper.slept <= scraper.jobData.maxDelay
    /\ scraper.rested = scraper.len \div scraper.jobData.cooldownAfter
    /\ scraper.rested > 0 => scraper.restMs = scraper.jobData.cooldownDuration

\* C18: for all min <= max, getRandomDelay(min, max) returns a value v with
\* min <= v <= max, whatever the two draws are.
C18_DelayWithinBounds ==
  delay.pc = "returned" =>
    /\ delay.result.k = "num"
    /\ delay.min <= delay.result.v
    /\ delay.result.v <= delay.max

\* C19: a unit whose execution throws is attempted at most 3 times, a stalled
\* unit is requeued at most maxStalledCount times, a unit that has completed
\* or failed is never executed again, and so the executions of a unit are
\* bounded.
C19_BoundedExecutions ==
  /\ [](\A u \in Units :
          /\ bull.unit[u].attemptsMade <= MaxAttempts
          /\ bull.unit[u].attemptsMade = MaxAttempts => bull.unit[u].state = "failed"
          /\ bull.unit[u].stalledCount <= bull.settings.maxStalledCount + 1
          /\ bull.unit[u].stalledCount > bull.settings.maxStalledCount
               => bull.unit[u].state = "failed"
          /\ bull.unit[u].runs <= MaxAttempts + bull.settings.maxStalledCount)
  /\ [][\A u \in Units : bull.unit[u].state \in {"completed", "failed"} =>
          bull'.unit[u] = bull.unit[u]]_vars

\* a unit has failed for good after its third throw, another after stalling
\* once more than the cap
C19_Witness ==
  \E u, v \in Units :
    /\ bull.unit[u].state = "failed" /\ bull.unit[u].attemptsMade = MaxAttempts
    /\ bull.unit[v].state = "failed"
    /\ bull.unit[v].stalledCount = bull.settings.maxStalledCount + 1

RunningStep(w) == worker[w].pc = "setRunning" /\ worker'[w] # worker[w]

\* C30: the start timestamp is written once: the dispatch of a job that has
\* none sets it, and every later dispatch leaves it as it is.
C30_StartedAtWrittenOnce ==
  [][\A j \in Jobs :
       /\ job[j].startedAt # NotStarted => job'[j].startedAt = job[j].startedAt
       /\ \A w \in Workers : (RunningStep(w) /\ worker[w].job = j) =>
            job'[j].startedAt = IF job[j].startedAt # NotStarted THEN job[j].startedAt
                                ELSE Now(j)]_vars

\* a second dispatch of the job has written RUNNING and the start timestamp
\* is the one of the first
C30_Witness ==
  \E j \in Jobs : /\ logs[j]["JOB_STARTED"] >= 2
                  /\ job[j].startedAt = 1

\* execution w goes from one location of the term to the next: the top of an
\* iteration of the location loop
LocationBoundary(w) ==
  /\ worker[w].pc \in {"search", "save", "progress", "failUpdate"}
  /\ worker'[w].pc = "search"
  /\ worker'[w].i = worker[w].i
  /\ worker'[w].j = worker[w].j + 1

\* C25: the pause request is observed at the top of every term iteration and
\* of every location iteration: no execution goes on to the next pair of a
\* job that is Paused, and an execution stops for a pause nowhere else.
C25_PauseObservedAtEveryBoundary ==
  [][\A w \in Workers :
       /\ LocationBoundary(w) => job[worker[w].job].status # "PAUSED"
       /\ (worker[w].pc = "kwTop" /\ worker[w].i < cfg[worker[w].job].nKw
             /\ worker'[w] # worker[w] /\ job[worker[w].job].status = "PAUSED")
            => worker'[w] = IdleWorker]_vars

\* C29: a milestone notification is emitted exactly when the job's
\* scrapedCount reaches a positive multiple of 500, once per multiple.
C29_MilestoneAtEveryMultiple ==
  /\ [][\A j \in Jobs :
          /\ notes'[j]["milestone"] # notes[j]["milestone"] =>
               /\ notes'[j]["milestone"] = notes[j]["milestone"] + 1
               /\ job'[j].scrapedCount # job[j].scrapedCount
               /\ job'[j].scrapedCount > 0
               /\ job'[j].scrapedCount % MilestoneEvery = 0
          /\ (job'[j].scrapedCount # job[j].scrapedCount
                /\ job'[j].scrapedCount > 0
                /\ job'[j].scrapedCount % MilestoneEvery = 0) =>
               notes'[j]["milestone"] = notes[j]["milestone"] + 1]_vars
  /\ [](\A j \in Jobs : notes[j]["milestone"] <= job[j].scrapedCount \div MilestoneEvery)

\* the columns of an exported file
Columns == {csv.headers[k] : k \in 1..Len(csv.headers)}

\* the column groups a job can select, by the name of the group
OptionalGroups ==
  [city |-> {"city"}, rating |-> {"rating", "reviewsCount"}, phone |-> {"phone"},
   coordinates |-> {"latitude", "longitude"},
   businessInfo |-> {"businessStatus", "businessTypes"},
   socialMedia |-> {"facebook", "instagram", "twitter", "linkedin"}]

EmitStep == sse'.emitted = sse.emitted + 1

\* C23: an event the worker emits is delivered to every live subscriber whose
\* jobId filter is absent or is the event's job, and to no other; a
\* subscriber that has disconnected has no handler and no timer and receives
\* nothing more.
C23_EventsReachSubscribers ==
  [][/\ EmitStep =>
          \A c \in Subscribers :
            sse'.sub[c].got =
              IF /\ sse.sub[c].state = "live"
                 /\ sse.sub[c].jobId \in {NoFilter, sse'.last.jobId}
              THEN sse.sub[c].got + 1
              ELSE sse.sub[c].got
     /\ \A c \in Subscribers : sse.sub[c].state = "closed" =>
          /\ sse'.sub[c] = sse.sub[c]
          /\ sse.sub[c].timers = {}
          /\ \A p \in Processes, t \in EventTypes : c \notin sse.listeners[p][t]]_vars

\* the body of the request lacks the client name, or its keywords are
\* missing, not a list or an empty list
Unacceptable(body) ==
  \/ body.clientName \in {"undefined", "''"}
  \/ body.keywords \in {"undefined", "null", "'cafe'", "[]"}

\* C24: a submission without client name, or whose keywords are missing, not
\* a list or empty, is answered 400 and creates nothing; an accepted
\* submission has created one job with status PENDING and one queue unit.
C24_SubmissionValidated ==
  (post.pc = "idle" /\ post.n > 0) =>
    /\ Unacceptable(post.body) => post.resp = 400 /\ post.made = Nothing
    /\ post.resp = 200 =>
         /\ ~Unacceptable(post.body)
         /\ post.made = [jobs |-> 1, logs |-> 1, units |-> 1, status |-> "PENDING"]

\* a second submission has been accepted: one job row with status PENDING and
\* one queue unit for it
C24_Witness ==
  /\ post.pc = "idle" /\ post.n = 2 /\ post.resp = 200
  /\ post.made.units = 1

\* C26: an execution that has ended holds no browser and has left none
\* open, whatever its exit; and a step taken with no browser held (the
\* second close of a pause, the close of the finally block after it) changes
\* neither the browser nor the page nor the counters.
C26_BrowserClosedOnEveryExit ==
  /\ [](session.pc = "ended" => session.open = 0 /\ session.browser = "null")
  /\ [][(session.pc = "finally" /\ session.browser = "null") =>
          /\ session'.browser = "null" /\ session'.page = "null"
          /\ session'.open = session.open
          /\ session'.exit = session.exit]_vars

\* the execution was paused from outside: close() ran at the top of the loop
\* and again in the finally block
C26_Witness ==
  session.pc = "ended" /\ session.exit = "paused" /\ session.open = 0

C28_OneBrowserPerScraper ==
  /\ [](session.pc # "none" =>
          /\ session.open <= 1
          /\ session.open = 1 <=> session.browser = "open")
  /\ [][session.pc # "none" /\ session'.pc # "new" /\ session'.open > session.open =>
          session.browser = "null" /\ session.open = 0]_vars

\* a restart whose newPage failed: the new browser is held without a page
C28_Witness ==
  session.pc = "link" /\ session.browser = "open" /\ session.page = "null"

\* C21: once the job row is gone, no place, failure or log entry of the job
\* exists, then or later, and the row stays gone; the row and its children
\* go in one step, the one that answers 200; a request that is answered 404
\* changes no row and no unit.
C21_DeleteRemovesEverything ==
  /\ [](deleted.pc # "none" =>
          /\ ~deleted.row =>
               deleted.places = 0 /\ deleted.failures = 0 /\ deleted.logs = 0
          /\ (deleted.pc = "idle" /\ deleted.resp = 200) => ~deleted.row)
  /\ [][deleted.pc # "none" =>
          /\ ~deleted.row => ~deleted'.row
          /\ (deleted.row /\ ~deleted'.row) =>
               /\ deleted'.resp = 200
               /\ deleted'.places = 0 /\ deleted'.failures = 0 /\ deleted'.logs = 0
          /\ (deleted'.places < deleted.places \/ deleted'.failures < deleted.failures
                \/ deleted'.logs < deleted.logs) => ~deleted'.row
          /\ (deleted'.wpc = deleted.wpc /\ deleted'.resp = 404) =>
               Rows(deleted') = Rows(deleted) /\ deleted'.unit = deleted.unit]_vars

\* the job was deleted under an execution, whose next write was refused
C21_Witness ==
  /\ ~deleted.row /\ deleted.resp = 200
  /\ deleted.refused /\ deleted.unit = "waiting" /\ deleted.att = 1

\* the persisted progress cursor of job j
PersistedCursor(j) == <<job[j].currentKeywordIndex, job[j].currentSubLocationIndex>>

\* the lexicographic order of cursors
LexLeq(a, b) == a[1] < b[1] \/ (a[1] = b[1] /\ a[2] <= b[2])

\* worker w takes a step of the execution it is in
ExecutionStep(w) ==
  /\ IsActive(w) /\ worker'[w] # worker[w]
  /\ worker'[w].pc # "idle" /\ worker'[w].job = worker[w].job

\* C31: a step of an execution never lowers the persisted cursor of its job
\* in the lexicographic order, and raises currentKeywordIndex only when every
\* location of the terms it leaves behind has been processed.
C31_CursorNeverDecreases ==
  [][\A w \in Workers : ExecutionStep(w) =>
       LET j == worker[w].job
       IN /\ LexLeq(PersistedCursor(j), PersistedCursor(j)')
          /\ job'[j].currentKeywordIndex > job[j].currentKeywordIndex =>
               \A i \in job[j].currentKeywordIndex..(job'[j].currentKeywordIndex - 1),
                  l \in 0..(NumSearchLocations(j) - 1) : <<i, l>> \in finished'[j]]_vars

\* C32: the step to COMPLETED persists the completion timestamp, and the
\* duration it reports is the completion time minus the persisted startedAt.
C32_DurationFromPersistedStart ==
  [][\A w \in Workers : CompleteStep(w) =>
       LET j == worker[w].job
       IN /\ job'[j].completedAt
          /\ Duration(worker[w].started, Now(j)) = Now(j) - job[j].startedAt]_vars

\* C33: no step of the scrape workers and of the pause and resume handlers
\* changes or removes a stored record, its owning job included; a record
\* that appears has a placeId that was not stored.
C33_RecordWrittenOnce ==
  [][/\ \A row \in places : row \in places'
     /\ \A row \in places' \ places : ~Stored(row.placeId)]_vars

\* an execution has stored a record of its own and has attempted to insert a
\* placeId stored by another job, whose record is still that job's
C33_Witness ==
  \E w \in Workers :
    /\ worker[w].dup >= 1
    /\ \E row \in places : row.jobId = worker[w].job
    /\ [placeId |-> 1, jobId |-> OtherJob] \in places

\* the save loop has inserted the place and has not yet come to its
\* addEmailScrapeJob
InFlight(pid) ==
  enrich.pc \in {"update", "enqueue"} /\ Place(enrich).placeId = pid

\* C34: no place has more than one enrichment unit; a unit exists only for
\* a stored record with a website; and a stored record with a website has
\* its unit as soon as the save loop is through with it.
C34_OneUnitPerRecordWithWebsite ==
  enrich.pc # "none" =>
    \A pid \in PlaceIds :
      /\ enrich.units[pid] <= 1
      /\ enrich.units[pid] = 1 => [placeId |-> pid, website |-> TRUE] \in enrich.rows
      /\ ([placeId |-> pid, website |-> TRUE] \in enrich.rows /\ ~InFlight(pid)) =>
           enrich.units[pid] = 1

\* C35: a job has a pause reason exactly when its status is PAUSED.
C35_PauseReasonIffPaused ==
  \A j \in Jobs : (job[j].pauseReason # NoReason) <=> (job[j].status = "PAUSED")

\* C36: while no worker executes a job its scrapedCount is the number of
\* records it inserted and its failedCount the number of its failure
\* records, and neither persisted counter ever decreases.
C36_CountersMatchRows ==
  /\ [](\A j \in Jobs : (\A w \in Workers : worker[w].job # j) =>
          /\ job[j].scrapedCount = Cardinality(RowsOf(j))
          /\ job[j].failedCount = Len(failures[j]))
  /\ [][\A j \in Jobs : /\ job'[j].scrapedCount >= job[j].scrapedCount
                        /\ job'[j].failedCount >= job[j].failedCount]_vars

\* a contact field that holds an address
NonEmpty(e) == e \notin {"null", "''"}

\* C37: no step of the enrichment worker turns a non-empty email of a record
\* into an empty one.
C37_EmailNeverLost ==
  [][\A s \in Sites :
       NonEmpty(email.site[s].email) => NonEmpty(email'.site[s].email)]_vars

\* no resume request is between its status update and its response
NoResumeInFlight == \A r \in Requests : patch.req[r].pc \in {"idle", "update"}

\* C38: a job whose persisted status is Pending, with no resume request still
\* on its way to the queue, has a queue unit waiting or active.
C38_PendingHasUnit ==
  (patch.rev # "none" /\ patch.status = "PENDING" /\ NoResumeInFlight) =>
    patch.waiting + patch.active >= 1

\* C39: once no resume request is in the handler, the units ever enqueued for
\* the job are the unit of its creation plus one per transition from Paused
\* to Pending, and one request was accepted per transition.
C39_OneUnitPerTransition ==
  (patch.rev # "none" /\ \A r \in Requests : patch.req[r].pc = "idle") =>
    /\ patch.added = 1 + patch.transitions
    /\ patch.accepted = patch.transitions

\* C40: the worker never moves on to the next pair while a challenge that was
\* served is still unseen by detectCaptcha, and a job that was served a
\* challenge is never Completed.
C40_ChallengeSeenBeforeNextPair ==
  /\ [][(visit.pc # "none" /\ visit'.k > visit.k) => ~visit.unseen]_vars
  /\ [](visit.pc # "none" => ~(visit.status = "COMPLETED" /\ visit.served))

====
